---- MODULE Spec2Model ----
(***************************************************************************)
(* The tool-calling bridge of chatwithoats (backend/openai_helper.py):     *)
(* name sanitising and the name -> tool id mapping, the formatting of the  *)
(* tool declarations, the assembling of the provider input and the turn    *)
(* that get_openai_response drives.                                        *)
(*                                                                         *)
(* A Python str is a sequence of one-character strings, so that slicing,   *)
(* split, startswith and re.sub are computed character by character.  A    *)
(* text whose characters the code never inspects (an apology, a tool       *)
(* result) is a sequence of fragments; f-string interpolation is \o.       *)
(*                                                                         *)
(* Message and Tool are taken with the attributes openai_helper.py reads   *)
(* and writes (openai_tool_call_id, tool_definition_name,                  *)
(* openai_function_name, skip_params): the data model of spec section 3.   *)
(***************************************************************************)
EXTENDS Integers, Sequences, FiniteSets, TLC

VARIABLES
    san_name,             \* _sanitize_tool_name: the argument
    san_result,           \* _sanitize_tool_name: the value returned
    tool_name_to_id_map,  \* OpenAIHelper._tool_name_to_id_map, in insertion order
    last_registered,      \* for each name, the id of the latest registration
    replaced,             \* the name and the id the latest registration wrote over
    lookup_name,          \* _get_tool_id_by_name: the argument of the latest call
    lookup_result,        \* _get_tool_id_by_name: the value it returned
    fmt_tools,            \* format_tools_for_openai: the argument of the latest call
    openai_tools,         \* format_tools_for_openai: the list it returned
    fmt_calls,            \* format_tools_for_openai: the calls made so far
    chat_settings,        \* conversation.chat_settings, NoObject if there is none
    history_limit,        \* message_history_limit of get_openai_response
    messages,             \* the committed rows of the messages table, by created_at
    pc,                   \* where the turn on the conversation stands
    user_message,         \* the message the turn answers
    formatted_messages,   \* get_openai_response: the provider input being built
    sent_tools,           \* get_openai_response: tools, the declarations sent along
    response,             \* the latest provider response, NoObject if none
    tool_calls,           \* the function calls extracted from the first response
    tc_index,             \* handle_tool_calls_with_array: the call the loop is at
    tool_messages,        \* handle_tool_calls_with_array: the list it returns
    returned,             \* the value get_openai_response returned, None before
    requests,             \* the provider requests of the turn, in order
    executed,             \* the calls of _execute_tool of the turn, in order
    db_failed,            \* a commit of the turn's tool entries raised
    next_id,              \* the ids handed out so far (uuid4, provider call ids)
    turn_limit,           \* the turns the conversation is followed for
    item_limit,           \* the items a first response holds at most
    turn_no,              \* the turns started so far
    exec_tool,            \* the tool execute_api_tool was called with
    exec_arguments,       \* the arguments it was called with
    exec_pc,              \* where the call of execute_api_tool is
    exec_request,         \* the HTTP request it sent, if it sent one
    exec_outcome,         \* how the HTTP request ended, once it has
    exec_result,          \* the value it returned, None before
    exec_raised,          \* the exception that left it, None if none did
    exec_normalized,      \* the response was handed to _process_response
    helper_map,           \* the dict self._tool_name_to_id_map refers to, 0 without the attribute
    dicts,                \* the dict objects created by _register_tool_name_mapping
    procs,                \* the turns and tool listings that share the helper
    loop_owner,           \* the turn the event loop is running
    round                 \* handle_tool_calls_with_array: where the round of the current call stands

sanVars == <<san_name, san_result>>
mapVars == <<tool_name_to_id_map>>
resVars == <<last_registered, replaced, lookup_name, lookup_result>>
fmtVars == <<fmt_tools, openai_tools, fmt_calls>>
turnVars == <<chat_settings, history_limit, messages, pc, user_message,
              formatted_messages, sent_tools, response, tool_calls, tc_index,
              tool_messages, returned, requests, executed, db_failed, next_id,
              turn_limit, item_limit, turn_no>>
exeVars == <<exec_tool, exec_arguments, exec_pc, exec_request, exec_outcome,
             exec_result, exec_raised, exec_normalized>>
conVars == <<helper_map, dicts, procs, loop_owner>>
rndVars == <<round>>
vars == <<sanVars, mapVars, resVars, fmtVars, turnVars, exeVars, conVars, rndVars>>

\* Python's None, and the value of a variable that holds nothing yet.
None == <<"<None>">>

\* None, where the value that may be missing is an object.
NoObject == [none |-> TRUE]

\* An OpenAIHelper on which no turn runs, and a conversation without rows.
NoTurn ==
    /\ chat_settings = NoObject
    /\ history_limit = 0
    /\ messages = <<>>
    /\ pc = "Idle"
    /\ user_message = NoObject
    /\ formatted_messages = <<>>
    /\ sent_tools = <<>>
    /\ response = NoObject
    /\ tool_calls = <<>>
    /\ tc_index = 0
    /\ tool_messages = <<>>
    /\ returned = None
    /\ requests = <<>>
    /\ executed = <<>>
    /\ db_failed = FALSE
    /\ next_id = 0
    /\ turn_limit = 0
    /\ item_limit = 0
    /\ turn_no = 0

\* No call of execute_api_tool is under way.
NoExecution ==
    /\ exec_tool = NoObject
    /\ exec_arguments = NoObject
    /\ exec_pc = "Idle"
    /\ exec_request = NoObject
    /\ exec_outcome = NoObject
    /\ exec_result = None
    /\ exec_raised = NoObject
    /\ exec_normalized = FALSE

\* No turn or tool listing of the concurrent specification exists.
NoOwner == "none"
\* The loop of handle_tool_calls_with_array between two calls: nothing is
\* awaited and no row waits for its result.
BetweenCalls ==
    [stage |-> "Next", in_flight |-> <<>>, tool_call_msg |-> NoObject, function_result |-> None]

NoConcurrency ==
    /\ helper_map = 0
    /\ dicts = <<>>
    /\ procs = <<>>
    /\ loop_owner = NoOwner
    /\ round = BetweenCalls

-----------------------------------------------------------------------------
(* Characters and strings *)

LowerCase == {"a", "b", "c", "d", "e", "f", "g", "h", "i", "j", "k", "l", "m",
              "n", "o", "p", "q", "r", "s", "t", "u", "v", "w", "x", "y", "z"}
UpperCase == {"A", "B", "C", "D", "E", "F", "G", "H", "I", "J", "K", "L", "M",
              "N", "O", "P", "Q", "R", "S", "T", "U", "V", "W", "X", "Y", "Z"}
Letters == LowerCase \cup UpperCase
Digits == {"0", "1", "2", "3", "4", "5", "6", "7", "8", "9"}

\* The characters the pattern [a-zA-Z0-9_-] accepts.
LegalChars == Letters \cup Digits \cup {"_", "-"}

\* s[:n]
Take(s, n) == IF Len(s) > n THEN SubSeq(s, 1, n) ELSE s

\* s[n:]
Drop(s, n) == IF Len(s) > n THEN SubSeq(s, n + 1, Len(s)) ELSE <<>>

\* s.startswith(p)
StartsWith(s, p) == Len(p) <= Len(s) /\ SubSeq(s, 1, Len(p)) = p

\* s.endswith(p)
EndsWith(s, p) == Len(p) <= Len(s) /\ SubSeq(s, Len(s) - Len(p) + 1, Len(s)) = p

\* c * n
Repeat(c, n) == [i \in 1..n |-> c]

-----------------------------------------------------------------------------
(* Name/Identity Resolver: Sanitize *)

\* The provider's maximum name length.
MaxToolNameLen == 64

unnamed_tool == <<"u", "n", "n", "a", "m", "e", "d", "_", "t", "o", "o", "l">>

\* The provider's legal-name predicate ^[A-Za-z0-9_-]{1,64}$.
LegalName(s) ==
    /\ Len(s) >= 1
    /\ Len(s) <= MaxToolNameLen
    /\ \A i \in 1..Len(s) : s[i] \in LegalChars

\* re.sub(r'[^a-zA-Z0-9_-]', '_', name)
ReplaceIllegal(name) ==
    [i \in 1..Len(name) |-> IF name[i] \in LegalChars THEN name[i] ELSE "_"]

\* The slip of cutting to the limit before the prefix is added.
SanitizeCutBeforePrefix(name) ==
    IF name = <<>>
    THEN unnamed_tool
    ELSE LET sanitized == Take(ReplaceIllegal(name), MaxToolNameLen)
         IN  IF ~(sanitized[1] \in Letters \/ sanitized[1] = "_")
             THEN <<"f", "_">> \o sanitized
             ELSE sanitized

_sanitize_tool_name(name) ==
    IF name = <<>>
    THEN unnamed_tool
    ELSE LET sanitized == ReplaceIllegal(name)
             prefixed == IF sanitized # <<>> /\ ~(sanitized[1] \in Letters \/ sanitized[1] = "_")
                         THEN <<"f", "_">> \o sanitized
                         ELSE sanitized
             cut == IF Len(prefixed) > MaxToolNameLen
                    THEN SubSeq(prefixed, 1, MaxToolNameLen)
                    ELSE prefixed
         IN  IF cut = <<>> THEN unnamed_tool ELSE cut

-----------------------------------------------------------------------------
(* The specification of _sanitize_tool_name over bounded names *)

\* The names tried: every head of at most MaxHeadLen characters, followed
\* by a run of one character that brings the length up to and over the limit.
MaxHeadLen == 2
HeadChars == {"a", "Z", "7", "-", "_", ".", " ", "/"}
TailChars == {"x", "9", "$"}
TailLens == {0, 1} \cup (MaxToolNameLen - 3 .. MaxToolNameLen + 1)

Heads == UNION {[1..n -> HeadChars] : n \in 0..MaxHeadLen}
SanitizeInputs == {h \o Repeat(c, n) : h \in Heads, c \in TailChars, n \in TailLens}

SanInit ==
    /\ NoExecution
    /\ NoConcurrency
    /\ NoTurn
    /\ san_name \in SanitizeInputs
    /\ san_result = None
    /\ tool_name_to_id_map = <<>>
    /\ last_registered = <<>>
    /\ replaced = None
    /\ lookup_name = None
    /\ lookup_result = None
    /\ fmt_tools = <<>>
    /\ openai_tools = <<>>
    /\ fmt_calls = 0

ApplySanitize ==
    /\ san_result = None
    /\ san_result' = _sanitize_tool_name(san_name)
    /\ UNCHANGED <<san_name, mapVars, resVars, fmtVars, turnVars, exeVars, conVars, rndVars>>

SanNext == ApplySanitize

SpecSanitize == SanInit /\ [][SanNext]_vars

\* C8: for every input name (empty, longer than 64 characters, starting
\* with a digit or a hyphen, ...) _sanitize_tool_name returns a string of 1
\* to 64 characters, all of them in [A-Za-z0-9_-].
C8_SanitizeLegal ==
    san_result # None => LegalName(san_result)

\* A name that starts with a digit and is longer than the limit has been
\* sanitised: the prefix was added and the result was cut.
C8_Witness ==
    /\ san_result # None
    /\ san_name # <<>>
    /\ san_name[1] \in Digits
    /\ Len(san_name) > MaxToolNameLen
    /\ Len(san_result) = MaxToolNameLen

-----------------------------------------------------------------------------
(* Name/Identity Resolver: Register and Resolve *)

\* The mapping is a dict: a sequence of <<name, id>> pairs with distinct
\* names, in insertion order (an absent attribute reads as the empty dict).
MapKeys(map) == {map[k][1] : k \in 1..Len(map)}

KeyIndex(map, name) == CHOOSE k \in 1..Len(map) : map[k][1] = name

\* The slip of keeping the first registration of a name.
RegisterFirstWins(map, tool_name, tool_id) ==
    IF tool_name \in MapKeys(map) THEN map ELSE Append(map, <<tool_name, tool_id>>)

\* self._tool_name_to_id_map[tool_name] = tool_id
_register_tool_name_mapping(map, tool_name, tool_id) ==
    IF tool_name \in MapKeys(map)
    THEN [map EXCEPT ![KeyIndex(map, tool_name)] = <<tool_name, tool_id>>]
    ELSE Append(map, <<tool_name, tool_id>>)

\* s.split(sep)
RECURSIVE Split(_, _)
Split(s, sep) ==
    IF \E i \in 1..Len(s) : s[i] = sep
    THEN LET i == CHOOSE j \in 1..Len(s) :
                      s[j] = sep /\ \A k \in 1..(j - 1) : s[k] # sep
         IN  <<SubSeq(s, 1, i - 1)>> \o Split(Drop(s, i), sep)
    ELSE <<s>>

\* The first id, in the order of values(), that starts with the prefix.
PrefixMatch(map, prefix) ==
    IF \E k \in 1..Len(map) : StartsWith(map[k][2], prefix)
    THEN LET k == CHOOSE j \in 1..Len(map) :
                      /\ StartsWith(map[j][2], prefix)
                      /\ \A h \in 1..(j - 1) : ~StartsWith(map[h][2], prefix)
         IN  map[k][2]
    ELSE None

\* The slip of trying the legacy prefix match before the direct lookup.
GetToolIdPrefixFirst(map, function_name) ==
    LET parts == Split(function_name, "_")
        byPrefix == IF Len(parts) > 1 THEN PrefixMatch(map, parts[Len(parts)]) ELSE None
    IN  IF byPrefix # None
        THEN byPrefix
        ELSE IF function_name \in MapKeys(map)
             THEN map[KeyIndex(map, function_name)][2]
             ELSE None

_get_tool_id_by_name(map, function_name) ==
    IF function_name \in MapKeys(map)
    THEN map[KeyIndex(map, function_name)][2]
    ELSE LET parts == Split(function_name, "_")
         IN  IF Len(parts) > 1
             THEN PrefixMatch(map, parts[Len(parts)])
             ELSE None

-----------------------------------------------------------------------------
(* The specification of the name mapping: registrations and lookups in any *)
(* order on one OpenAIHelper                                               *)

MapNames == {<<"t", "_", "a">>, <<"t", "_", "b">>, <<"t", "_">>, <<"x">>}
MapIds == {<<"a", "1">>, <<"a", "2">>, <<"b", "1">>}

MapInit ==
    /\ NoExecution
    /\ NoConcurrency
    /\ NoTurn
    /\ tool_name_to_id_map = <<>>
    /\ last_registered = [n \in MapNames |-> None]
    /\ replaced = None
    /\ lookup_name = None
    /\ lookup_result = None
    /\ san_name = None
    /\ san_result = None
    /\ fmt_tools = <<>>
    /\ openai_tools = <<>>
    /\ fmt_calls = 0

Register(name, id) ==
    /\ tool_name_to_id_map' = _register_tool_name_mapping(tool_name_to_id_map, name, id)
    /\ last_registered' = [last_registered EXCEPT ![name] = id]
    /\ replaced' = IF name \in MapKeys(tool_name_to_id_map)
                   THEN <<name, tool_name_to_id_map[KeyIndex(tool_name_to_id_map, name)][2]>>
                   ELSE None
    /\ lookup_name' = None
    /\ lookup_result' = None
    /\ UNCHANGED <<sanVars, fmtVars, turnVars, exeVars, conVars, rndVars>>

Lookup(name) ==
    /\ lookup_name' = name
    /\ lookup_result' = _get_tool_id_by_name(tool_name_to_id_map, name)
    /\ UNCHANGED <<tool_name_to_id_map, last_registered, replaced, sanVars, fmtVars, turnVars, exeVars, conVars, rndVars>>

MapNext ==
    \/ \E name \in MapNames, id \in MapIds : Register(name, id)
    \/ \E name \in MapNames : Lookup(name)

SpecMapping == MapInit /\ [][MapNext]_vars

\* C9: after _register_tool_name_mapping(name, id), and as long as no later
\* registration uses the same name, _get_tool_id_by_name(name) returns id,
\* whatever other names and ids were registered before or after.
C9_RoundTrip ==
    (lookup_name # None /\ last_registered[lookup_name] # None)
        => lookup_result = last_registered[lookup_name]

\* A registered name is looked up while another registered id starts with
\* the name's last token, and after the name itself was registered twice.
C9_Witness ==
    /\ lookup_name = <<"t", "_", "a">>
    /\ lookup_result = <<"a", "2">>
    /\ Len(tool_name_to_id_map) >= 2
    /\ tool_name_to_id_map[1] = <<<<"x">>, <<"a", "1">>>>

-----------------------------------------------------------------------------
(* More of str, and urllib.parse.urlparse *)

\* The index of the first character of s that is in chars, 0 if none is.
FindAny(s, chars) ==
    IF \E i \in 1..Len(s) : s[i] \in chars
    THEN CHOOSE i \in 1..Len(s) : s[i] \in chars /\ \A k \in 1..(i - 1) : s[k] \notin chars
    ELSE 0

\* s.strip(chars)
RECURSIVE StripChars(_, _)
StripChars(s, chars) ==
    IF s = <<>> THEN s
    ELSE IF s[1] \in chars THEN StripChars(Drop(s, 1), chars)
    ELSE IF s[Len(s)] \in chars THEN StripChars(Take(s, Len(s) - 1), chars)
    ELSE s

\* s.strip()
Whitespace == {" "}
Strip(s) == StripChars(s, Whitespace)

\* s.lower(), on the ASCII letters
UpperSeq == <<"A", "B", "C", "D", "E", "F", "G", "H", "I", "J", "K", "L", "M",
              "N", "O", "P", "Q", "R", "S", "T", "U", "V", "W", "X", "Y", "Z">>
LowerSeq == <<"a", "b", "c", "d", "e", "f", "g", "h", "i", "j", "k", "l", "m",
              "n", "o", "p", "q", "r", "s", "t", "u", "v", "w", "x", "y", "z">>
LowerChar(c) ==
    IF c \in UpperCase
    THEN LowerSeq[CHOOSE i \in 1..Len(UpperSeq) : UpperSeq[i] = c]
    ELSE c
Lower(s) == [i \in 1..Len(s) |-> LowerChar(s[i])]

\* s.replace(a, b) for single characters
ReplaceChar(s, a, b) == [i \in 1..Len(s) |-> IF s[i] = a THEN b ELSE s[i]]

\* sep.join(parts)
RECURSIVE Join(_, _)
Join(parts, sep) ==
    IF parts = <<>> THEN <<>>
    ELSE IF Len(parts) = 1 THEN parts[1]
    ELSE parts[1] \o sep \o Join(Tail(parts), sep)

\* re.sub(r'_+', '_', s)
RECURSIVE CollapseUnderscores(_)
CollapseUnderscores(s) ==
    IF Len(s) < 2 THEN s
    ELSE IF s[1] = "_" /\ s[2] = "_" THEN CollapseUnderscores(Tail(s))
    ELSE <<s[1]>> \o CollapseUnderscores(Tail(s))

\* [x for x in seq if x], for a list of strings
RECURSIVE NonEmpty(_)
NonEmpty(seq) ==
    IF seq = <<>> THEN <<>>
    ELSE IF seq[1] = <<>> THEN NonEmpty(Tail(seq))
    ELSE <<seq[1]>> \o NonEmpty(Tail(seq))

SchemeChars == Letters \cup Digits \cup {"+", "-", "."}

\* urlparse(url): the scheme, the netloc and the path (urlsplit; the query
\* and the fragment are cut off the path).
urlparse(url) ==
    LET colon == FindAny(url, {":"})
        hasScheme == /\ colon > 1
                     /\ url[1] \in Letters
                     /\ \A k \in 1..(colon - 1) : url[k] \in SchemeChars
        scheme == IF hasScheme THEN Lower(SubSeq(url, 1, colon - 1)) ELSE <<>>
        rest == IF hasScheme THEN Drop(url, colon) ELSE url
        hasNetloc == StartsWith(rest, <<"/", "/">>)
        afterSlashes == Drop(rest, 2)
        delim == FindAny(afterSlashes, {"/", "?", "#"})
        netloc == IF ~hasNetloc THEN <<>>
                  ELSE IF delim = 0 THEN afterSlashes
                  ELSE SubSeq(afterSlashes, 1, delim - 1)
        rest2 == IF ~hasNetloc THEN rest
                 ELSE IF delim = 0 THEN <<>>
                 ELSE Drop(afterSlashes, delim - 1)
        hash == FindAny(rest2, {"#"})
        rest3 == IF hash = 0 THEN rest2 ELSE SubSeq(rest2, 1, hash - 1)
        qmark == FindAny(rest3, {"?"})
        path == IF qmark = 0 THEN rest3 ELSE SubSeq(rest3, 1, qmark - 1)
    IN  [scheme |-> scheme, netloc |-> netloc, path |-> path]

-----------------------------------------------------------------------------
(* Tool Schema Formatter *)

\* ToolType
FUNCTION == "function"
WEB_SEARCH == "web_search_preview"
FILE_SEARCH == "file_search"
\* a tool_type column that is NULL
NO_TYPE == "none"

common_suffixes == <<<<"_", "c", "o", "m">>, <<"_", "o", "r", "g">>, <<"_", "n", "e", "t">>, <<"_", "i", "o">>, <<"_", "a", "i">>, <<"_", "c", "o", "_", "u", "k">>, <<"_", "g", "o", "v">>, <<"_", "i", "n", "f", "o">>, <<"_", "b", "i", "z">>>>

\* Remove the first suffix of common_suffixes that the name ends with.
RemoveCommonSuffix(server_name) ==
    IF \E k \in 1..Len(common_suffixes) : EndsWith(server_name, common_suffixes[k])
    THEN LET k == CHOOSE j \in 1..Len(common_suffixes) :
                      /\ EndsWith(server_name, common_suffixes[j])
                      /\ \A h \in 1..(j - 1) : ~EndsWith(server_name, common_suffixes[h])
         IN  Take(server_name, Len(server_name) - Len(common_suffixes[k]))
    ELSE server_name

\* re.match(r'^v[0-9]+(?:[a-zA-Z0-9._-]*)$', segment)
IsVersionSegment(segment) ==
    /\ Len(segment) >= 2
    /\ segment[1] = "v"
    /\ segment[2] \in Digits
    /\ \A i \in 3..Len(segment) : segment[i] \in LegalChars \cup {"."}

\* A path that is set, not blank and not "/".
SpecificPath(path) == path # None /\ Strip(path) # <<>> /\ Strip(path) # <<"/">>

unknown_server == <<"u", "n", "k", "n", "o", "w", "n", "_", "s", "e", "r", "v", "e", "r">>
unknown_endpoint == <<"u", "n", "k", "n", "o", "w", "n", "_", "e", "n", "d", "p", "o", "i", "n", "t">>

\* Each step of the name synthesis (lines 377-469) is an operator of the
\* values the steps before it computed.

\* method_str
MethodStr(method) ==
    IF method # None /\ method # <<>> THEN Lower(method) ELSE <<"p", "o", "s", "t">>

\* url_to_parse_for_server: the server of the linked API, else the url of
\* the request, else None.
UrlToParseForServer(api_request) ==
    IF api_request.api # NoObject /\ api_request.api.server # None /\ api_request.api.server # <<>>
    THEN api_request.api.server
    ELSE IF api_request.url # None /\ api_request.url # <<>>
         THEN api_request.url
         ELSE None

\* urlparse(url).netloc and urlparse(url).path, of a url that may be None
NetlocOf(url) == IF url = None THEN <<>> ELSE urlparse(url).netloc
PathOf(url) == IF url = None \/ url = <<>> THEN <<>> ELSE urlparse(url).path

\* server_name_str, from the netloc of url_to_parse_for_server
ServerNameStr(netloc) ==
    IF netloc # <<>>
    THEN RemoveCommonSuffix(ReplaceChar(netloc, ".", "_"))
    ELSE unknown_server

\* path_to_parse_for_endpoint: the path of the request, else the path in the
\* request's url, else the path in the server url, else None.
PathToParseForEndpoint(path, request_url_path, server_url_path) ==
    IF SpecificPath(path) THEN path
    ELSE IF SpecificPath(request_url_path) THEN request_url_path
    ELSE IF SpecificPath(server_url_path) THEN server_url_path
    ELSE None

\* path_to_parse_for_endpoint.strip('/').split('/')
PathSegments(path_to_parse) ==
    IF path_to_parse = None THEN <<>>
    ELSE Split(StripChars(path_to_parse, {"/"}), "/")

\* version_str
VersionStr(path_segments) ==
    IF path_segments # <<>> /\ path_segments[1] # <<>> /\ IsVersionSegment(path_segments[1])
    THEN path_segments[1]
    ELSE <<>>

\* current_endpoint_str
CurrentEndpointStr(path_segments, version_str) ==
    Join(NonEmpty(IF version_str # <<>> THEN Tail(path_segments) ELSE path_segments), <<"_">>)

\* endpoint_str
EndpointStr(path_to_parse, path_segments, version_str, current_endpoint_str) ==
    IF path_to_parse = None THEN <<"g", "e", "n", "e", "r", "a", "l", "_", "a", "c", "t", "i", "o", "n">>
    ELSE IF path_segments # <<>> /\ path_segments[1] # <<>>
         THEN IF current_endpoint_str # <<>> THEN current_endpoint_str
              ELSE IF version_str # <<>> THEN <<"b", "a", "s", "e", "_", "v", "e", "r", "s", "i", "o", "n", "_", "e", "n", "d", "p", "o", "i", "n", "t">>
              ELSE unknown_endpoint
         ELSE IF StripChars(path_to_parse, {"/"}) = <<>> THEN <<"r", "o", "o", "t", "_", "a", "p", "i">>
              ELSE unknown_endpoint

\* name_parts
NameParts(server_name_str, version_str, endpoint_str, method_str) ==
    (IF server_name_str # unknown_server THEN <<server_name_str>> ELSE <<>>)
    \o (IF version_str # <<>> THEN <<version_str>> ELSE <<>>)
    \o (IF endpoint_str # unknown_endpoint THEN <<endpoint_str>> ELSE <<>>)
    \o <<method_str>>

\* formatted_name, before the underscores are collapsed
JoinedName(tool_id, name_parts, server_name_str, version_str, endpoint_str, method_str) ==
    IF Len(name_parts) = 1 /\ name_parts[1] = method_str
         /\ server_name_str = unknown_server /\ endpoint_str = unknown_endpoint
         /\ version_str = <<>>
    THEN <<"g", "e", "n", "e", "r", "i", "c", "_", "a", "p", "i", "_", "t", "o", "o", "l", "_">> \o Take(tool_id, 4)
    ELSE Join(name_parts, <<"_">>)

\* formatted_name
FormattedName(tool_id, collapsed) ==
    IF collapsed = <<>> THEN <<"f", "a", "l", "l", "b", "a", "c", "k", "_", "t", "o", "o", "l", "_", "n", "a", "m", "e", "_">> \o Take(tool_id, 4) ELSE collapsed

AssembleName(tool_id, server_name_str, version_str, endpoint_str, method_str) ==
    FormattedName(tool_id,
        StripChars(CollapseUnderscores(
            JoinedName(tool_id, NameParts(server_name_str, version_str, endpoint_str, method_str),
                       server_name_str, version_str, endpoint_str, method_str)), {"_"}))

NameFromSegments(tool_id, server_name_str, method_str, path_to_parse, path_segments, version_str) ==
    AssembleName(tool_id, server_name_str, version_str,
        EndpointStr(path_to_parse, path_segments, version_str,
                    CurrentEndpointStr(path_segments, version_str)),
        method_str)

NameFromPath(tool_id, server_name_str, method_str, path_to_parse, path_segments) ==
    NameFromSegments(tool_id, server_name_str, method_str, path_to_parse, path_segments,
                     VersionStr(path_segments))

NameFromServer(tool_id, api_request, server_url, path_to_parse) ==
    NameFromPath(tool_id, ServerNameStr(NetlocOf(server_url)), MethodStr(api_request.method),
                 path_to_parse, PathSegments(path_to_parse))

NameFromRequest(tool_id, api_request, server_url) ==
    NameFromServer(tool_id, api_request, server_url,
        PathToParseForEndpoint(api_request.path, PathOf(api_request.url), PathOf(server_url)))

\* The name of an API-linked function tool: server, version, endpoint and
\* method joined by "_".
ApiToolFormattedName(tool) ==
    NameFromRequest(tool.id, tool.api_request, UrlToParseForServer(tool.api_request))

\* The name under which a function tool is declared and registered, None
\* for a tool that declares no function (lines 369-561).
FunctionToolName(tool) ==
    IF tool.tool_type # FUNCTION THEN None
    ELSE IF tool.api_request_id # None
         THEN IF tool.api_request = NoObject
              THEN None
              ELSE _sanitize_tool_name(ApiToolFormattedName(tool))
         ELSE IF tool.function_schema # None
              THEN _sanitize_tool_name(
                       <<"c", "u", "s", "t", "o", "m", "_">>
                       \o (IF tool.name # None /\ tool.name # <<>> THEN tool.name ELSE <<"f", "u", "n", "c", "t", "i", "o", "n">>)
                       \o <<"_">> \o Take(tool.id, 8))
              ELSE _sanitize_tool_name(<<"f", "u", "n", "c", "t", "i", "o", "n", "_">> \o Take(tool.id, 8))

\* The declarations a tool declared under name adds to openai_tools: none,
\* or one.
ToolDeclaration(tool, name) ==
    IF tool.tool_type = WEB_SEARCH THEN <<[type |-> WEB_SEARCH, name |-> None]>>
    ELSE IF tool.tool_type = FILE_SEARCH THEN <<[type |-> FILE_SEARCH, name |-> None]>>
    ELSE IF tool.tool_type = FUNCTION /\ name # None
         THEN <<[type |-> FUNCTION, name |-> name]>>
         ELSE <<>>

\* format_tools_for_openai(tools) on a helper whose mapping is map: the
\* list returned and the mapping left behind.
RECURSIVE format_tools_for_openai(_, _)

FormatResult(declaration, rest) ==
    [openai_tools |-> declaration \o rest.openai_tools, map |-> rest.map]

\* The slip of declaring a function only while its name is not registered.
FormatFirstSkipRegistered(map, tools, name) ==
    FormatResult(IF name # None /\ name \in MapKeys(map)
                 THEN <<>>
                 ELSE ToolDeclaration(tools[1], name),
        format_tools_for_openai(
            IF name # None THEN _register_tool_name_mapping(map, name, tools[1].id) ELSE map,
            Tail(tools)))
\* One round of the loop: the first tool, declared under name.
FormatFirst(map, tools, name) ==
    FormatResult(ToolDeclaration(tools[1], name),
        format_tools_for_openai(
            IF name # None THEN _register_tool_name_mapping(map, name, tools[1].id) ELSE map,
            Tail(tools)))

format_tools_for_openai(map, tools) ==
    IF tools = <<>>
    THEN [openai_tools |-> <<>>, map |-> map]
    ELSE FormatFirst(map, tools, FunctionToolName(tools[1]))

-----------------------------------------------------------------------------
(* The tools and endpoints the specifications draw from *)

ExampleApi == [server |-> <<"h", "t", "t", "p", "s", ":", "/", "/", "a", "p", "i", ".", "e", "x", "a", "m", "p", "l", "e", ".", "c", "o", "m">>]
LocalApi == [server |-> <<"h", "t", "t", "p", ":", "/", "/", "l", "o", "c", "a", "l", "h", "o", "s", "t", ":", "8", "0", "8", "0", "/", "a", "p", "i">>]

ItemsPost == [id |-> <<"r", "1">>, path |-> <<"/", "v", "1", "/", "i", "t", "e", "m", "s">>, method |-> <<"P", "O", "S", "T">>, url |-> None, api |-> ExampleApi]
LocalRoot == [id |-> <<"r", "3">>, path |-> <<"/">>, method |-> <<"G", "E", "T">>, url |-> None, api |-> LocalApi]

\* A name that alone fills what the limit leaves after "custom_".
LongName == Repeat("n", MaxToolNameLen - 7)

MkTool(id, name, tool_type, api_request_id, api_request, function_schema) ==
    [id |-> id, name |-> name, tool_type |-> tool_type, api_request_id |-> api_request_id,
     api_request |-> api_request, function_schema |-> function_schema]

\* Stands for a function_schema that is set.
SomeSchema == <<"schema">>

ItemsTool == MkTool(<<"a", "1", "b", "2", "c", "3", "d", "4", "e", "5">>, <<"i", "t", "e", "m", "s">>, FUNCTION, <<"r", "1">>, ItemsPost, None)
ItemsToolAgain == MkTool(<<"0", "f", "9", "e", "8", "d", "7", "c", "6", "b">>, <<"i", "t", "e", "m", "s">>, FUNCTION, <<"r", "1">>, ItemsPost, None)
RootTool == MkTool(<<"c", "3", "b", "2", "c", "3", "d", "4", "e", "5">>, <<"r", "o", "o", "t">>, FUNCTION, <<"r", "3">>, LocalRoot, None)
DanglingTool == MkTool(<<"d", "4", "b", "2", "c", "3", "d", "4", "e", "5">>, <<"g", "o", "n", "e">>, FUNCTION, <<"r", "9">>, NoObject, None)
WeatherTool == MkTool(<<"e", "5", "b", "2", "c", "3", "d", "4", "e", "5">>, <<"w", "e", "a", "t", "h", "e", "r">>, FUNCTION, None, NoObject, SomeSchema)
LongTool == MkTool(<<"f", "6", "b", "2", "c", "3", "d", "4", "e", "5">>, LongName, FUNCTION, None, NoObject, SomeSchema)
LongToolAgain == MkTool(<<"f", "7", "b", "2", "c", "3", "d", "4", "e", "5">>, LongName, FUNCTION, None, NoObject, SomeSchema)
BareTool == MkTool(<<"9", "a", "b", "2", "c", "3", "d", "4", "e", "5">>, <<"b", "a", "r", "e">>, FUNCTION, None, NoObject, None)
SearchTool == MkTool(<<"8", "b", "b", "2", "c", "3", "d", "4", "e", "5">>, <<"s", "e", "a", "r", "c", "h">>, WEB_SEARCH, None, NoObject, None)
UntypedTool == MkTool(<<"7", "c", "b", "2", "c", "3", "d", "4", "e", "5">>, <<"o", "l", "d">>, NO_TYPE, None, NoObject, None)

ToolPool == {ItemsTool, ItemsToolAgain, RootTool, DanglingTool, WeatherTool,
             LongTool, LongToolAgain, BareTool, SearchTool, UntypedTool}

\* The lists of at most n distinct tools.
MaxTools == 2
ToolLists(n) ==
    {l \in UNION {[1..k -> ToolPool] : k \in 0..n} :
        \A i, j \in 1..Len(l) : i # j => l[i] # l[j]}

-----------------------------------------------------------------------------
(* The specification of format_tools_for_openai: the tool list of one chat *)
(* settings record is formatted again and again on an OpenAIHelper that    *)
(* has formatted at most one other tool before                             *)

MaxFormatCalls == 2

FmtInit ==
    /\ NoExecution
    /\ NoConcurrency
    /\ NoTurn
    /\ \E earlier \in ToolLists(1) :
           tool_name_to_id_map = format_tools_for_openai(<<>>, earlier).map
    /\ fmt_tools \in ToolLists(MaxTools)
    /\ openai_tools = <<>>
    /\ fmt_calls = 0
    /\ san_name = None
    /\ san_result = None
    /\ last_registered = <<>>
    /\ replaced = None
    /\ lookup_name = None
    /\ lookup_result = None

FormatTools ==
    LET r == format_tools_for_openai(tool_name_to_id_map, fmt_tools)
    IN  /\ fmt_calls < MaxFormatCalls
        /\ fmt_calls' = fmt_calls + 1
        /\ openai_tools' = r.openai_tools
        /\ tool_name_to_id_map' = r.map
        /\ UNCHANGED <<fmt_tools, sanVars, resVars, turnVars, exeVars, conVars, rndVars>>

FmtNext == FormatTools

SpecFormat == FmtInit /\ [][FmtNext]_vars

\* The names of the function declarations of a list, in order.
RECURSIVE FunctionNames(_)
FunctionNames(decls) ==
    IF decls = <<>> THEN <<>>
    ELSE IF decls[1].type = FUNCTION
         THEN <<decls[1].name>> \o FunctionNames(Tail(decls))
         ELSE FunctionNames(Tail(decls))

\* C10: the function declarations returned by one call of
\* format_tools_for_openai have pairwise distinct names, each of them a legal
\* provider name.
C10_DistinctLegalNames ==
    LET names == FunctionNames(openai_tools)
    IN  /\ \A i \in 1..Len(names) : LegalName(names[i])
        /\ \A i, j \in 1..Len(names) : i # j => names[i] # names[j]

\* The part of C10 the code keeps: every declared function name is legal.
C10_LegalNames ==
    LET names == FunctionNames(openai_tools)
    IN  \A i \in 1..Len(names) : LegalName(names[i])

-----------------------------------------------------------------------------
(* The rows of the messages table and the entries of the provider input *)

TEXT == "TEXT"
TOOL_CALL == "TOOL_CALL"
TOOL_RESULT == "TOOL_RESULT"

\* A provider id (fc_..., call_...) that is missing: None or "".
NoId == 0

\* Message(...): a row, with the columns the bridge reads and writes.
Message(id, sender, type, content, role, openai_tool_call_id, tool_call_id, tool_definition_name, openai_function_name, function_arguments, function_result) ==
    [id |-> id, sender |-> sender, type |-> type, content |-> content,
     role |-> role, openai_tool_call_id |-> openai_tool_call_id,
     tool_call_id |-> tool_call_id,
     tool_definition_name |-> tool_definition_name,
     openai_function_name |-> openai_function_name,
     function_arguments |-> function_arguments,
     function_result |-> function_result]

\* The text row a router stores: the user message, the assistant's answer.
TextMessage(id, sender, content, role) ==
    Message(id, sender, TEXT, content, role, NoId, NoId, None, None, None, None)

\* json.loads(args_str), the value held as the text json.dumps gives for it:
\* the provider's compact text gets the separators of json.dumps, a text
\* that is no JSON becomes the error dict.
CompactArgs == <<"{\"q\":1}">>
DumpedArgs == <<"{\"q\": 1}">>
json_loads(args_str) ==
    IF args_str \in {CompactArgs, DumpedArgs} THEN DumpedArgs
    ELSE <<"{\"error\": \"Failed to parse arguments\", \"arguments_string\": \"">>
             \o args_str \o <<"\"}">>

_create_tool_call_message(id, openai_tool_call_id, tool_linking_id, tool_definition_name, openai_function_name, function_args) ==
    Message(id, None, TOOL_CALL, None, <<"assistant">>, openai_tool_call_id,
            tool_linking_id, tool_definition_name, openai_function_name,
            function_args, None)

_create_tool_result_message(id, tool_linking_id, tool_definition_name, openai_function_name, function_result) ==
    Message(id, None, TOOL_RESULT, None, <<"tool">>, NoId, tool_linking_id,
            tool_definition_name, openai_function_name, None, function_result)

\* The entries of the provider input.
TextEntry(role, content) == [type |-> "message", role |-> role, content |-> content]

FunctionCallEntry(msg) ==
    [type |-> "function_call", id |-> msg.openai_tool_call_id,
     call_id |-> msg.tool_call_id, name |-> msg.openai_function_name,
     arguments |-> msg.function_arguments]

FunctionCallOutputEntry(msg) ==
    [type |-> "function_call_output", call_id |-> msg.tool_call_id,
     output |-> msg.function_result]

\* The slip of adding the results to the input without their calls.
AddToolResultOnly(formatted, msg) ==
    IF msg.type = TOOL_RESULT THEN Append(formatted, FunctionCallOutputEntry(msg))
    ELSE formatted
\* formatted_messages after _add_tool_message_to_history(formatted, msg)
_add_tool_message_to_history(formatted, msg) ==
    IF msg.type = TOOL_CALL THEN Append(formatted, FunctionCallEntry(msg))
    ELSE IF msg.type = TOOL_RESULT THEN Append(formatted, FunctionCallOutputEntry(msg))
    ELSE formatted

\* The loop of get_openai_response over tool_messages.
RECURSIVE AddToolMessages(_, _)
AddToolMessages(formatted, msgs) ==
    IF msgs = <<>> THEN formatted
    ELSE AddToolMessages(_add_tool_message_to_history(formatted, msgs[1]), Tail(msgs))

\* msg.role if msg.role else "user" if msg.sender else "assistant"
RoleOf(msg) ==
    IF msg.role # None /\ msg.role # <<>> THEN msg.role
    ELSE IF msg.sender # None /\ msg.sender # <<>> THEN <<"user">>
    ELSE <<"assistant">>

\* What one row of the history adds to the input.
HistoryEntry(msg) ==
    IF msg.type = TEXT
    THEN <<TextEntry(RoleOf(msg), IF msg.content = None THEN <<>> ELSE msg.content)>>
    ELSE IF msg.type = TOOL_CALL THEN <<FunctionCallEntry(msg)>>
    ELSE IF msg.type = TOOL_RESULT THEN <<FunctionCallOutputEntry(msg)>>
    ELSE <<>>

\* The slip of leaving the fetched rows newest first.
RECURSIVE Reversed(_)
Reversed(s) == IF s = <<>> THEN <<>> ELSE Append(Reversed(Tail(s)), s[1])
MessageHistoryNewestFirst(rows, limit) ==
    Reversed(IF Len(rows) > limit THEN SubSeq(rows, Len(rows) - limit + 1, Len(rows)) ELSE rows)
\* order_by(created_at.desc()).limit(limit).all(), then reverse()
MessageHistory(rows, limit) ==
    IF Len(rows) > limit THEN SubSeq(rows, Len(rows) - limit + 1, Len(rows)) ELSE rows

\* The slip of replaying the current message with the history.
RECURSIVE HistoryEntriesKeepCurrent(_, _)
HistoryEntriesKeepCurrent(history, current_id) ==
    IF history = <<>> THEN <<>>
    ELSE HistoryEntry(history[1]) \o HistoryEntriesKeepCurrent(Tail(history), current_id)
RECURSIVE HistoryEntries(_, _)
HistoryEntries(history, current_id) ==
    IF history = <<>> THEN <<>>
    ELSE IF history[1].id = current_id THEN HistoryEntries(Tail(history), current_id)
    ELSE HistoryEntry(history[1]) \o HistoryEntries(Tail(history), current_id)

_format_conversation(rows, system_prompt, current, limit) ==
    <<TextEntry(<<"system">>, system_prompt)>>
        \o HistoryEntries(MessageHistory(rows, limit), current.id)
        \o <<TextEntry(<<"user">>, current.content)>>
-----------------------------------------------------------------------------
(* Resolving and executing one tool call *)

\* for t in tool_list: if t.id == tool_id
FindById(tool_list, tool_id) ==
    IF \E k \in 1..Len(tool_list) : tool_list[k].id = tool_id
    THEN tool_list[CHOOSE k \in 1..Len(tool_list) :
                       /\ tool_list[k].id = tool_id
                       /\ \A h \in 1..(k - 1) : tool_list[h].id # tool_id]
    ELSE NoObject

\* for t in tool_list: if t.name == function_name
FindByName(tool_list, function_name) ==
    IF \E k \in 1..Len(tool_list) : tool_list[k].name = function_name
    THEN tool_list[CHOOSE k \in 1..Len(tool_list) :
                       /\ tool_list[k].name = function_name
                       /\ \A h \in 1..(k - 1) : tool_list[h].name # function_name]
    ELSE NoObject

\* The slip of looking the mapped id up among the tools of every
\* conversation.
FindMappedAnywhere(tool_list, tool_id) ==
    IF tool_id # None /\ tool_id # <<>>
    THEN IF \E t \in ToolPool : t.id = tool_id
         THEN CHOOSE t \in ToolPool : t.id = tool_id
         ELSE NoObject
    ELSE NoObject
\* The tool the mapping names, if the conversation has it.
FindMapped(tool_list, tool_id) ==
    IF tool_id # None /\ tool_id # <<>> THEN FindById(tool_list, tool_id) ELSE NoObject

\* The tool _execute_tool settles on: by the mapped id, else by name.
FindTool(tool_list, map, function_name) ==
    IF FindMapped(tool_list, _get_tool_id_by_name(map, function_name)) # NoObject
    THEN FindMapped(tool_list, _get_tool_id_by_name(map, function_name))
    ELSE FindByName(tool_list, function_name)

\* canonical_tool_name of handle_tool_calls_with_array
CanonicalToolName(tool_list, map, function_name) ==
    IF FindMapped(tool_list, _get_tool_id_by_name(map, function_name)) # NoObject
    THEN FindMapped(tool_list, _get_tool_id_by_name(map, function_name)).name
    ELSE function_name

\* f"{function_args}": the repr of the dict.
PyRepr(function_args) == <<"<repr of ">> \o function_args \o <<">">>

\* What _execute_tool returns once it has settled on tool; api_result is
\* what execute_api_tool returns for it.
ExecuteFound(tool, function_name, function_args, api_result) ==
    IF tool = NoObject
    THEN <<"Tool not found for function: ">> \o function_name
    ELSE IF tool.api_request_id # None /\ tool.api_request_id # <<>>
    THEN api_result
    ELSE IF tool.tool_type = FUNCTION
    THEN <<"Executed function ">> \o function_name \o <<" with args ">>
             \o PyRepr(function_args) \o <<". This is a placeholder response.">>
    ELSE <<"Unsupported tool type: ", tool.tool_type>>

\* The slip of answering an unresolved name with a fixed text.
ExecuteToolFixedNotFound(tool_list, map, function_name, function_args, api_result) ==
    IF FindTool(tool_list, map, function_name) = NoObject
    THEN <<"Tool not found">>
    ELSE ExecuteFound(FindTool(tool_list, map, function_name), function_name,
                      function_args, api_result)

_execute_tool(tool_list, map, function_name, function_args, api_result) ==
    ExecuteFound(FindTool(tool_list, map, function_name), function_name,
                 function_args, api_result)

\* What execute_api_tool returns: the processed body of a 2xx response, or
\* one of its error texts.
ApiResults == {<<"<response body>">>, <<"Error code: ", "404", " - ", "<body>">>}

-----------------------------------------------------------------------------
(* The texts get_openai_response returns *)

SettingsApology ==
    <<"I'm sorry, I'm having trouble with my settings. Please try again later.">>
HttpErrorText == <<"I encountered an HTTP error: ", "<status_code>", " - ", "<text>">>
ConnectApology == <<"I'm sorry, I couldn't connect to the AI service: ", "<e_sdk_call>">>
ErrorApology(e) == <<"I'm sorry, I encountered an error: ", e>>

\* The exceptions the outer handler meets.
CommitError == "<commit failed>"
ProviderError == "<responses.create failed>"
NoTextError == "<'NoneType' object is not subscriptable>"

\* The slip of returning response.output_text as it is.
ResponseTextUnchecked(output_text) == output_text

\* response_text = response.output_text; response_text[:100] for the log;
\* return response_text -- under the outer handler.
ResponseText(output_text) ==
    IF output_text = None THEN ErrorApology(NoTextError) ELSE output_text

\* The items of response.output (a list) whose type is function_call.
ExtractFunctionCalls(output) ==
    SelectSeq(output, LAMBDA item : item.type = "function_call")
-----------------------------------------------------------------------------
(* The turn: a router stores the user message, get_openai_response answers *)
(* it, the router stores the answer                                        *)

MaxTurns == 2
MaxCalls == 2
ShortLimit == 3
DefaultHistoryLimit == 20

\* What is followed: one turn whose first response holds up to MaxCalls
\* items, or up to MaxTurns turns whose responses hold one item at most.
Shapes == {[turns |-> 1, items |-> MaxCalls], [turns |-> MaxTurns, items |-> 1]}

HistoryLimits == {ShortLimit, DefaultHistoryLimit}

SystemPrompt == <<"You are Oats.">>
ChatSettingsChoices ==
    {NoObject,
     [system_prompt |-> SystemPrompt, tools |-> <<>>],
     [system_prompt |-> SystemPrompt, tools |-> <<SearchTool, ItemsTool>>]}

UserContents == {<<"hello">>}
OutputTexts == {<<"answer">>, None}
UserSender == <<"user-1">>

\* A name no tool of any conversation answers to.
ghost_tool == <<"g", "h", "o", "s", "t", "_", "t", "o", "o", "l">>

\* The names a function call of the provider carries: a declared one, or
\* one that was never declared.
CallNames(decls) ==
    {decls[k].name : k \in {h \in 1..Len(decls) : decls[h].type = FUNCTION}}
        \cup {ghost_tool}

\* The ids a function call carries: both, or the fc_ id only.
IdShapes == {"both", "id_only"}

FunctionCallItem(n, name, shape) ==
    [type |-> "function_call",
     id |-> IF shape = "neither" THEN NoId ELSE n + 1,
     call_id |-> IF shape = "both" THEN n + 2 ELSE NoId,
     name |-> name, arguments |-> CompactArgs]

MessageItem == [type |-> "message"]

\* The items of an output: a function call with a name and an id, one
\* without a name, one without ids, a message.
ItemKinds(decls) ==
    [kind : {"function_call"}, name : CallNames(decls), shape : IdShapes]
        \cup {[kind |-> "function_call", name |-> None, shape |-> "both"],
              [kind |-> "function_call", name |-> ghost_tool, shape |-> "neither"],
              [kind |-> "message", name |-> None, shape |-> "neither"]}

OutputOf(kinds, base) ==
    [k \in 1..Len(kinds) |->
        IF kinds[k].kind = "message" THEN MessageItem
        ELSE FunctionCallItem(base + 2 * (k - 1), kinds[k].name, kinds[k].shape)]

\* The output lists of at most n items; the ids of the item at k are the
\* two after base + 2 * (k - 1).  A provider that was given no function to
\* call answers with text only.
Outputs(decls, n, base) ==
    IF decls = <<>> THEN {<<>>, <<MessageItem>>}
    ELSE {OutputOf(kinds, base) :
          kinds \in UNION {[1..len -> ItemKinds(decls)] : len \in 0..n}}

\* The outputs of the second response, of which the code reads the text
\* only: no item, a message, or a function call.
SecondOutputs(decls, base) ==
    IF decls = <<>> THEN {<<>>, <<MessageItem>>}
    ELSE {<<>>, <<MessageItem>>}
             \cup {<<FunctionCallItem(base, name, "both")>> : name \in CallNames(decls)}

_get_tools_for_chat(map, tool_list) ==
    IF tool_list = <<>> THEN [openai_tools |-> <<>>, map |-> map]
    ELSE format_tools_for_openai(map, tool_list)

TurnInit ==
    /\ NoExecution
    /\ NoConcurrency
    /\ chat_settings \in ChatSettingsChoices
    /\ history_limit \in HistoryLimits
    /\ messages = <<>>
    /\ pc = "Idle"
    /\ user_message = NoObject
    /\ formatted_messages = <<>>
    /\ sent_tools = <<>>
    /\ response = NoObject
    /\ tool_calls = <<>>
    /\ tc_index = 0
    /\ tool_messages = <<>>
    /\ returned = None
    /\ requests = <<>>
    /\ executed = <<>>
    /\ db_failed = FALSE
    /\ next_id = 0
    /\ \E shape \in Shapes :
           /\ turn_limit = shape.turns
           /\ item_limit = shape.items
    /\ turn_no = 0
    /\ tool_name_to_id_map = <<>>
    /\ san_name = None
    /\ san_result = None
    /\ last_registered = <<>>
    /\ replaced = None
    /\ lookup_name = None
    /\ lookup_result = None
    /\ fmt_tools = <<>>
    /\ openai_tools = <<>>
    /\ fmt_calls = 0

\* The request responses.create sends.
Request(input, decls) == [input |-> input, tools |-> decls]

\* get_openai_response up to the first responses.create, for a conversation
\* that has chat settings: input and formatted are what _format_conversation
\* and _get_tools_for_chat returned.
SendFirstRequest(input, formatted) ==
    /\ formatted_messages' = input
    /\ sent_tools' = formatted.openai_tools
    /\ tool_name_to_id_map' = formatted.map
    /\ requests' = <<Request(input, formatted.openai_tools)>>
    /\ pc' = "AwaitingFirstResponse"
    /\ returned' = None

\* add_portal_message, handle_new_message: the user message is committed and
\* get_openai_response is entered.
StartTurn(content) ==
    /\ pc = "Idle"
    /\ turn_no < turn_limit
    /\ turn_no' = turn_no + 1
    /\ next_id' = next_id + 1
    /\ user_message' = TextMessage(next_id + 1, UserSender, content, <<"user">>)
    /\ messages' = Append(messages, user_message')
    /\ IF chat_settings = NoObject
       THEN /\ returned' = SettingsApology
            /\ pc' = "Done"
            /\ UNCHANGED <<formatted_messages, sent_tools, tool_name_to_id_map, requests>>
       ELSE SendFirstRequest(
                _format_conversation(messages', chat_settings.system_prompt,
                                     user_message', history_limit),
                _get_tools_for_chat(tool_name_to_id_map, chat_settings.tools))
    /\ UNCHANGED <<chat_settings, history_limit, response, tool_calls, tc_index,
                   tool_messages, executed, db_failed, turn_limit, item_limit,
                   sanVars, resVars, fmtVars, exeVars, conVars, rndVars>>

\* The slip of trying the provider a second time when the first call fails.
FirstCallFailsSecondTry(kind) ==
    /\ pc = "AwaitingFirstResponse"
    /\ requests' = Append(requests, requests[1])
    /\ pc' = "AwaitingSecondResponse"
    /\ UNCHANGED <<chat_settings, history_limit, messages, user_message,
                   formatted_messages, sent_tools, response, tool_calls, tc_index,
                   tool_messages, returned, executed, db_failed, next_id, turn_limit, item_limit,
                   turn_no, sanVars, mapVars, resVars, fmtVars, exeVars, conVars, rndVars>>
\* The first responses.create raises.
FirstCallFails(kind) ==
    /\ pc = "AwaitingFirstResponse"
    /\ returned' = IF kind = "HTTPStatusError" THEN HttpErrorText ELSE ConnectApology
    /\ pc' = "Done"
    /\ UNCHANGED <<chat_settings, history_limit, messages, user_message,
                   formatted_messages, sent_tools, response, tool_calls, tc_index,
                   tool_messages, requests, executed, db_failed, next_id, turn_limit, item_limit,
                   turn_no, sanVars, mapVars, resVars, fmtVars, exeVars, conVars, rndVars>>

\* The slip of starting the tool round whether or not there are calls.
FirstResponseAlwaysRound(output, output_text) ==
    /\ pc = "AwaitingFirstResponse"
    /\ next_id' = next_id + 2 * Len(output)
    /\ tool_calls' = ExtractFunctionCalls(output)
    /\ response' = [output |-> output, output_text |-> output_text]
    /\ returned' = None
    /\ pc' = "HasToolCalls"
    /\ UNCHANGED <<chat_settings, history_limit, messages, user_message,
                   formatted_messages, sent_tools, tc_index, tool_messages,
                   requests, executed, db_failed, turn_limit, item_limit,
                   turn_no, sanVars, mapVars, resVars, fmtVars, exeVars, conVars, rndVars>>

\* The first response is there and its function calls are extracted; with
\* none, its text is returned.
FirstResponse(output, output_text) ==
    /\ pc = "AwaitingFirstResponse"
    /\ next_id' = next_id + 2 * Len(output)
    /\ tool_calls' = ExtractFunctionCalls(output)
    /\ IF tool_calls' = <<>>
       THEN /\ response' = [output |-> output, output_text |-> output_text]
            /\ returned' = ResponseText(output_text)
            /\ pc' = "Done"
       ELSE /\ response' = NoObject
            /\ returned' = None
            /\ pc' = "HasToolCalls"
    /\ UNCHANGED <<chat_settings, history_limit, messages, user_message,
                   formatted_messages, sent_tools, tc_index, tool_messages,
                   requests, executed, db_failed, turn_limit, item_limit,
                   turn_no, sanVars, mapVars, resVars, fmtVars, exeVars, conVars, rndVars>>

\* handle_tool_calls_with_array is entered.
BeginToolCalls ==
    /\ pc = "HasToolCalls"
    /\ pc' = "ExecutingTools"
    /\ tc_index' = 1
    /\ tool_messages' = <<>>
    /\ UNCHANGED <<chat_settings, history_limit, messages, user_message,
                   formatted_messages, sent_tools, response, tool_calls, returned,
                   requests, executed, db_failed, next_id, turn_limit, item_limit,
                   turn_no, sanVars, mapVars, resVars, fmtVars, exeVars, conVars, rndVars>>

\* openai_call_id of handle_tool_calls_with_array: call_id, else the fc_ id.
LinkingId(call) == IF call.call_id # NoId THEN call.call_id ELSE call.id

\* The slip of dropping a call only when it has no name.
DroppedOnlyWithoutName(call) == call.name = None \/ call.name = <<>>
\* if not openai_call_id or not current_openai_function_name: continue
Dropped(call) == LinkingId(call) = NoId \/ call.name = None \/ call.name = <<>>

\* The entry of the log of _execute_tool calls.
Execution(call_id, function_name, tool, result) ==
    [call_id |-> call_id, function_name |-> function_name,
     tool_id |-> IF tool = NoObject THEN None ELSE tool.id, result |-> result]

\* The slip of letting the commit that fails take the turn's earlier
\* entries with it.
RecordToolCallOneTransaction(tool_call_msg, tool_result_msg, execution, fault) ==
    /\ messages' =
           IF fault = "none" THEN messages \o <<tool_call_msg, tool_result_msg>>
           ELSE SubSeq(messages, 1, Len(messages) - Len(tool_messages))
    /\ tool_messages' =
           IF fault = "none" THEN tool_messages \o <<tool_call_msg, tool_result_msg>>
           ELSE tool_messages
    /\ executed' = IF fault = "tool_call" THEN executed ELSE Append(executed, execution)
    /\ db_failed' = (fault # "none")
    /\ tc_index' = IF fault = "none" THEN tc_index + 1 ELSE tc_index
    /\ pc' = IF fault = "none" THEN pc ELSE "Done"
    /\ returned' = IF fault = "none" THEN returned ELSE ErrorApology(CommitError)

\* The slip of letting a tool's error text end the loop.
RecordToolCallStopOnError(tool_call_msg, tool_result_msg, execution, fault) ==
    /\ messages' =
           IF fault = "tool_call" THEN messages
           ELSE IF fault = "tool_result" THEN Append(messages, tool_call_msg)
           ELSE messages \o <<tool_call_msg, tool_result_msg>>
    /\ tool_messages' =
           IF fault = "none" THEN tool_messages \o <<tool_call_msg, tool_result_msg>>
           ELSE tool_messages
    /\ executed' = IF fault = "tool_call" THEN executed ELSE Append(executed, execution)
    /\ db_failed' = (fault # "none")
    /\ tc_index' = IF fault = "none" /\ execution.tool_id # None THEN tc_index + 1
                   ELSE tc_index
    /\ pc' = IF fault = "none" /\ execution.tool_id # None THEN pc ELSE "Done"
    /\ returned' = IF fault = "none" /\ execution.tool_id # None THEN returned
                   ELSE ErrorApology(CommitError)

\* One round of the loop for a call that is not dropped: the ToolCall row
\* is added and committed, the tool is executed, the ToolResult row is
\* added and committed.  fault names the commit that raises, if one does;
\* the exception leaves through the handler of get_openai_response.
RecordToolCall(tool_call_msg, tool_result_msg, execution, fault) ==
    /\ messages' =
           IF fault = "tool_call" THEN messages
           ELSE IF fault = "tool_result" THEN Append(messages, tool_call_msg)
           ELSE messages \o <<tool_call_msg, tool_result_msg>>
    /\ tool_messages' =
           IF fault = "none" THEN tool_messages \o <<tool_call_msg, tool_result_msg>>
           ELSE tool_messages
    /\ executed' = IF fault = "tool_call" THEN executed ELSE Append(executed, execution)
    /\ db_failed' = (fault # "none")
    /\ tc_index' = IF fault = "none" THEN tc_index + 1 ELSE tc_index
    /\ pc' = IF fault = "none" THEN pc ELSE "Done"
    /\ returned' = IF fault = "none" THEN returned ELSE ErrorApology(CommitError)

\* The round for a call with linking id call_id, canonical name canonical
\* and the result function_result of _execute_tool.
ProcessToolCall(call, call_id, canonical, function_result, fault) ==
    RecordToolCall(
        _create_tool_call_message(next_id + 1, call.id, call_id, canonical,
                                  call.name, json_loads(call.arguments)),
        _create_tool_result_message(next_id + 2, call_id, canonical, call.name,
                                    function_result),
        Execution(call_id, call.name,
                  FindTool(chat_settings.tools, tool_name_to_id_map, call.name),
                  function_result),
        fault)

CommitFaults == {"none", "tool_call", "tool_result"}

\* One round of the loop of handle_tool_calls_with_array.
HandleToolCall(fault, api_result) ==
    /\ pc = "ExecutingTools"
    /\ tc_index <= Len(tool_calls)
    /\ IF Dropped(tool_calls[tc_index])
       THEN /\ tc_index' = tc_index + 1
            /\ UNCHANGED <<messages, tool_messages, executed, db_failed, pc,
                           returned, next_id>>
       ELSE /\ next_id' = next_id + 2
            /\ ProcessToolCall(
                   tool_calls[tc_index], LinkingId(tool_calls[tc_index]),
                   CanonicalToolName(chat_settings.tools, tool_name_to_id_map,
                                     tool_calls[tc_index].name),
                   _execute_tool(chat_settings.tools, tool_name_to_id_map,
                                 tool_calls[tc_index].name,
                                 json_loads(tool_calls[tc_index].arguments),
                                 api_result),
                   fault)
    /\ UNCHANGED <<chat_settings, history_limit, user_message, formatted_messages,
                   sent_tools, response, tool_calls, requests, turn_limit, item_limit,
                   turn_no, sanVars, mapVars, resVars, fmtVars, exeVars, conVars, rndVars>>

\* The loop is over: the tool messages are added to the input and the
\* second responses.create is sent, with the same declarations.
SecondRequest ==
    /\ pc = "ExecutingTools"
    /\ tc_index > Len(tool_calls)
    /\ formatted_messages' = AddToolMessages(formatted_messages, tool_messages)
    /\ requests' = Append(requests, Request(formatted_messages', sent_tools))
    /\ pc' = "AwaitingSecondResponse"
    /\ UNCHANGED <<chat_settings, history_limit, messages, user_message, sent_tools,
                   response, tool_calls, tc_index, tool_messages, returned,
                   executed, db_failed, next_id, turn_limit, item_limit,
                   turn_no, sanVars, mapVars, resVars, fmtVars, exeVars, conVars, rndVars>>

\* The second responses.create raises.
SecondCallFails ==
    /\ pc = "AwaitingSecondResponse"
    /\ returned' = ErrorApology(ProviderError)
    /\ pc' = "Done"
    /\ UNCHANGED <<chat_settings, history_limit, messages, user_message,
                   formatted_messages, sent_tools, response, tool_calls, tc_index,
                   tool_messages, requests, executed, db_failed, next_id, turn_limit, item_limit,
                   turn_no, sanVars, mapVars, resVars, fmtVars, exeVars, conVars, rndVars>>

\* The slip of handling the function calls of the second response too.
SecondResponseAnotherRound(output, output_text) ==
    /\ pc = "AwaitingSecondResponse"
    /\ next_id' = next_id + 2 * Len(output)
    /\ response' = [output |-> output, output_text |-> output_text]
    /\ IF ExtractFunctionCalls(output) = <<>>
       THEN /\ returned' = ResponseText(output_text)
            /\ pc' = "Done"
            /\ UNCHANGED <<tool_calls, tc_index, tool_messages>>
       ELSE /\ returned' = None
            /\ pc' = "ExecutingTools"
            /\ tool_calls' = ExtractFunctionCalls(output)
            /\ tc_index' = 1
            /\ tool_messages' = <<>>
    /\ UNCHANGED <<chat_settings, history_limit, messages, user_message,
                   formatted_messages, sent_tools, requests, executed, db_failed,
                   turn_limit, item_limit, turn_no,
                   sanVars, mapVars, resVars, fmtVars, exeVars, conVars, rndVars>>

\* The second response is there: its text is returned, whatever else it
\* holds.
SecondResponse(output, output_text) ==
    /\ pc = "AwaitingSecondResponse"
    /\ response' = [output |-> output, output_text |-> output_text]
    /\ returned' = ResponseText(output_text)
    /\ pc' = "Done"
    /\ UNCHANGED <<chat_settings, history_limit, messages, user_message,
                   formatted_messages, sent_tools, tool_calls, tc_index,
                   tool_messages, requests, executed, db_failed, next_id,
                   turn_limit, item_limit, turn_no,
                   sanVars, mapVars, resVars, fmtVars, exeVars, conVars, rndVars>>

\* The router stores the answer as the assistant's text row and the turn is
\* over.
FinishTurn ==
    /\ pc = "Done"
    /\ pc' = "Idle"
    /\ next_id' = next_id + 1
    /\ messages' = Append(messages,
                          TextMessage(next_id + 1, None, returned, <<"assistant">>))
    /\ user_message' = NoObject
    /\ formatted_messages' = <<>>
    /\ sent_tools' = <<>>
    /\ response' = NoObject
    /\ tool_calls' = <<>>
    /\ tc_index' = 0
    /\ tool_messages' = <<>>
    /\ returned' = None
    /\ requests' = <<>>
    /\ executed' = <<>>
    /\ db_failed' = FALSE
    /\ UNCHANGED <<chat_settings, history_limit, turn_limit, item_limit, turn_no,
                   sanVars, mapVars, resVars, fmtVars, exeVars, conVars, rndVars>>

Next ==
    \/ \E content \in UserContents : StartTurn(content)
    \/ \E kind \in {"HTTPStatusError", "Exception"} : FirstCallFails(kind)
    \/ /\ pc = "AwaitingFirstResponse"
       /\ \E output \in Outputs(sent_tools, item_limit, next_id),
             output_text \in OutputTexts :
              FirstResponse(output, output_text)
    \/ BeginToolCalls
    \/ \E fault \in CommitFaults, api_result \in ApiResults :
           HandleToolCall(fault, api_result)
    \/ SecondRequest
    \/ SecondCallFails
    \/ /\ pc = "AwaitingSecondResponse"
       /\ \E output \in SecondOutputs(sent_tools, next_id), output_text \in OutputTexts :
              SecondResponse(output, output_text)
    \/ FinishTurn

Spec == TurnInit /\ [][Next]_vars

-----------------------------------------------------------------------------
(* What the turn keeps *)

IsPrefix(s, t) == Len(s) <= Len(t) /\ SubSeq(t, 1, Len(s)) = s

\* The rows of the given type that carry the linking id.
RowsOf(type, call_id) ==
    {k \in 1..Len(messages) :
        messages[k].type = type /\ messages[k].tool_call_id = call_id}

\* The call has its ToolCall row and, after it, its ToolResult row.
Recorded(call) ==
    \E i \in RowsOf(TOOL_CALL, LinkingId(call)) :
        \E j \in RowsOf(TOOL_RESULT, LinkingId(call)) : i < j

\* C1: get_openai_response returns a string on every path: without chat
\* settings, when the first provider call fails, when a commit fails while
\* the tool calls are handled, when the second provider call fails and
\* when the response carries no output text.
C1_ReturnsString == pc = "Done" => returned # None

\* The second response came without output text and the apology went out.
C1_Witness ==
    /\ pc = "Done"
    /\ Len(requests) = 2
    /\ response # NoObject
    /\ response.output_text = None
    /\ returned = ErrorApology(NoTextError)

\* C2: one call of get_openai_response sends at most two provider requests
\* and runs one tool round: every executed call is a function call of the
\* first response, and a function call of the second response is neither
\* executed nor recorded.
C2_OneToolRound ==
    /\ Len(requests) <= 2
    /\ \A k \in 1..Len(executed) :
           \E h \in 1..Len(tool_calls) : LinkingId(tool_calls[h]) = executed[k].call_id
    /\ (pc = "Done" /\ Len(requests) = 2 /\ response # NoObject) =>
           \A call \in {response.output[k] : k \in
                            {h \in 1..Len(response.output) :
                                response.output[h].type = "function_call"}} :
               /\ \A k \in 1..Len(executed) : executed[k].call_id # LinkingId(call)
               /\ RowsOf(TOOL_CALL, LinkingId(call)) = {}
               /\ RowsOf(TOOL_RESULT, LinkingId(call)) = {}

\* The second response asked for a declared function and the turn is over.
C2_Witness ==
    /\ pc = "Done"
    /\ Len(requests) = 2
    /\ Len(executed) = 1
    /\ response # NoObject
    /\ \E k \in 1..Len(response.output) :
           /\ response.output[k].type = "function_call"
           /\ ~Dropped(response.output[k])
           /\ response.output[k].name # ghost_tool

\* In input, the function_call at i has exactly one function_call_output
\* with its call id, later in input, with no user text in between.
HasItsResult(input, i) ==
    /\ Cardinality({j \in 1..Len(input) :
                       /\ input[j].type = "function_call_output"
                       /\ input[j].call_id = input[i].call_id}) = 1
    /\ \E j \in (i + 1)..Len(input) :
           /\ input[j].type = "function_call_output"
           /\ input[j].call_id = input[i].call_id
           /\ \A k \in (i + 1)..(j - 1) :
                  ~(input[k].type = "message" /\ input[k].role = <<"user">>)

\* C3: in every input sent to the provider, each function_call entry is
\* followed by exactly one function_call_output entry with its call id,
\* with no user text entry between the two.
C3_CallsHaveResults ==
    \A r \in 1..Len(requests) :
        \A i \in 1..Len(requests[r].input) :
            requests[r].input[i].type = "function_call"
                => HasItsResult(requests[r].input, i)

\* C4: when the first response holds no function call, the turn sends one
\* provider request, returns the text of that response and adds no
\* ToolCall or ToolResult row: the user message stays the last row.
C4_NoCallsOneRequest ==
    (pc = "Done" /\ response # NoObject /\ tool_calls = <<>>) =>
        /\ Len(requests) = 1
        /\ response.output_text # None => returned = response.output_text
        /\ executed = <<>>
        /\ messages[Len(messages)] = user_message

\* A conversation without tools got its answer from the one request.
C4_Witness ==
    /\ pc = "Done"
    /\ chat_settings # NoObject
    /\ chat_settings.tools = <<>>
    /\ response # NoObject
    /\ returned = <<"answer">>
    /\ Len(requests) = 1
    /\ turn_no = 2

\* The ToolResult rows of the linking id all hold the text.
ResultRowsHold(call_id, text) ==
    \A k \in RowsOf(TOOL_RESULT, call_id) : messages[k].function_result = text

\* C5 as claimed: the result of a call whose name resolves to no tool of
\* the conversation is the fixed text "Tool not found", and the second
\* provider request is still sent.
C5_FixedNotFoundText ==
    \A k \in 1..Len(executed) :
        executed[k].tool_id = None =>
            /\ executed[k].result = <<"Tool not found">>
            /\ ResultRowsHold(executed[k].call_id, <<"Tool not found">>)
            /\ pc = "Done" => Len(requests) = 2

\* C5, amended: the result of such a call is "Tool not found for function: "
\* followed by the name, this is the text of its ToolResult row, and the
\* second provider request is sent unless a commit of the turn's tool rows
\* raised.
C5_NotFoundNamesFunction ==
    \A k \in 1..Len(executed) :
        executed[k].tool_id = None =>
            /\ executed[k].result =
                   <<"Tool not found for function: ">> \o executed[k].function_name
            /\ ResultRowsHold(executed[k].call_id,
                   <<"Tool not found for function: ">> \o executed[k].function_name)
            /\ (pc = "Done" /\ ~db_failed) => Len(requests) = 2

\* An unresolved call was answered and the second request is out.
C5_Witness ==
    /\ pc = "AwaitingSecondResponse"
    /\ Len(requests) = 2
    /\ \E k \in 1..Len(executed) :
           /\ executed[k].tool_id = None
           /\ RowsOf(TOOL_RESULT, executed[k].call_id) # {}

\* C6: a call that resolves to no tool, or whose execution ends in an
\* error text, does not end the loop: every call the loop has passed that
\* has a linking id and a name has its ToolCall and its ToolResult row,
\* and, unless a commit raised, the loop passes every call.
C6_EveryCallRecorded ==
    /\ pc \in {"ExecutingTools", "AwaitingSecondResponse"} =>
           \A k \in 1..(tc_index - 1) :
               ~Dropped(tool_calls[k]) => Recorded(tool_calls[k])
    /\ (pc \in {"AwaitingSecondResponse", "Done"} /\ ~db_failed) =>
           \A k \in 1..Len(tool_calls) :
               ~Dropped(tool_calls[k]) => Recorded(tool_calls[k])

\* Two calls were handled: the first resolved to no tool, the second ended
\* in an HTTP error, and both are recorded.
C6_Witness ==
    /\ pc = "AwaitingSecondResponse"
    /\ Len(executed) = 2
    /\ executed[1].tool_id = None
    /\ executed[2].tool_id # None
    /\ executed[2].result = <<"Error code: ", "404", " - ", "<body>">>
    /\ Len(tool_messages) = 4

\* C7: no step removes or changes a committed row, and the turn ends with
\* a string also when a commit or the second provider call fails after
\* rows of the turn were committed.
C7_CommittedRowsStay ==
    [][IsPrefix(messages, messages') /\ (pc' = "Done" => returned' # None)]_vars

\* The commit of the second call's ToolResult raised: the three rows
\* before it are there and the apology went out.
C7_Witness ==
    /\ pc = "Done"
    /\ db_failed
    /\ Len(tool_messages) = 2
    /\ messages[Len(messages)].type = TOOL_CALL
    /\ messages[Len(messages) - 1] = tool_messages[2]
    /\ returned = ErrorApology(CommitError)

-----------------------------------------------------------------------------
(* Formatting again *)

\* C11: formatting the same tool list again on the same OpenAIHelper, with
\* the mapping left as the formatting before left it, returns the same
\* declarations and leaves the same mapping.
C11_FormatIdempotent ==
    [][fmt_calls >= 1 =>
          /\ openai_tools' = openai_tools
          /\ tool_name_to_id_map' = tool_name_to_id_map]_vars

\* A list of two tools with a function among them has been formatted twice.
C11_Witness ==
    /\ fmt_calls = 2
    /\ Len(fmt_tools) = 2
    /\ FunctionNames(openai_tools) # <<>>
    /\ tool_name_to_id_map # <<>>

-----------------------------------------------------------------------------
(* The specification of _format_conversation: the rows of a conversation,  *)
(* as the messages table can hold them, are assembled for one inbound      *)
(* message and one history limit                                           *)

MaxRows == 3

IMAGE == "IMAGE"

\* The rows of the messages table, by what they hold: content, role and
\* sender are nullable columns, type is any MessageType.
RowKinds ==
    {"user_text", "empty_text", "null_text", "answer", "no_role_sender", "no_role",
     "tool_call", "tool_result", "image"}

\* The row stored k-th; a tool result carries the linking id of the row
\* before it.
StoredRow(k, kind) ==
    CASE kind = "user_text" -> TextMessage(k, UserSender, <<"hi">>, <<"user">>)
      [] kind = "empty_text" -> TextMessage(k, UserSender, <<>>, <<"user">>)
      [] kind = "null_text" -> TextMessage(k, UserSender, None, <<"user">>)
      [] kind = "answer" -> TextMessage(k, None, <<"answer">>, <<"assistant">>)
      [] kind = "no_role_sender" -> TextMessage(k, UserSender, <<"hi">>, None)
      [] kind = "no_role" -> TextMessage(k, None, <<"answer">>, None)
      [] kind = "tool_call" ->
             _create_tool_call_message(k, k, k, <<"items">>, <<"items_post">>, DumpedArgs)
      [] kind = "tool_result" ->
             _create_tool_result_message(k, k - 1, <<"items">>, <<"items_post">>,
                                         <<"<response body>">>)
      [] OTHER -> Message(k, UserSender, IMAGE, None, <<"user">>, NoId, NoId,
                          None, None, None, None)

StoredRows(n) ==
    {[k \in 1..Len(kinds) |-> StoredRow(k, kinds[k])] :
        kinds \in UNION {[1..len -> RowKinds] : len \in 0..n}}

AssembleLimits == {1, 2, DefaultHistoryLimit}

\* The inbound message: a user's row of the conversation, or a message that
\* is not stored (test_openai_response), with a text, "" or no content.
Currents(rows) ==
    {rows[k] : k \in {h \in 1..Len(rows) : rows[h].role = <<"user">>}}
        \cup {TextMessage(Len(rows) + 1, UserSender, content, <<"user">>) :
                 content \in {<<"hello">>, <<>>, None}}

AsmInit ==
    /\ NoExecution
    /\ NoConcurrency
    /\ chat_settings = [system_prompt |-> SystemPrompt, tools |-> <<>>]
    /\ history_limit \in AssembleLimits
    /\ messages \in StoredRows(MaxRows)
    /\ pc = "Idle"
    /\ user_message = NoObject
    /\ formatted_messages = <<>>
    /\ sent_tools = <<>>
    /\ response = NoObject
    /\ tool_calls = <<>>
    /\ tc_index = 0
    /\ tool_messages = <<>>
    /\ returned = None
    /\ requests = <<>>
    /\ executed = <<>>
    /\ db_failed = FALSE
    /\ next_id = 0
    /\ turn_limit = 0
    /\ item_limit = 0
    /\ turn_no = 0
    /\ tool_name_to_id_map = <<>>
    /\ san_name = None
    /\ san_result = None
    /\ last_registered = <<>>
    /\ replaced = None
    /\ lookup_name = None
    /\ lookup_result = None
    /\ fmt_tools = <<>>
    /\ openai_tools = <<>>
    /\ fmt_calls = 0

\* formatted_messages = self._format_conversation(conversation, user_message,
\* db, message_history_limit)
Assemble(current) ==
    /\ pc = "Idle"
    /\ pc' = "Formatted"
    /\ user_message' = current
    /\ formatted_messages' =
           _format_conversation(messages, chat_settings.system_prompt, current,
                                history_limit)
    /\ UNCHANGED <<chat_settings, history_limit, messages, sent_tools, response,
                   tool_calls, tc_index, tool_messages, returned, requests,
                   executed, db_failed, next_id, turn_limit, item_limit, turn_no,
                   sanVars, mapVars, resVars, fmtVars, exeVars, conVars, rndVars>>

AsmNext == \E current \in Currents(messages) : Assemble(current)

SpecAssemble == AsmInit /\ [][AsmNext]_vars

\* The rows of the window the query returns.
Window == {k \in 1..Len(messages) : k > Len(messages) - history_limit}

\* The rows of the window that are replayed for the current message.
Replayed ==
    {k \in Window :
        /\ messages[k].id # user_message.id
        /\ messages[k].type \in {TEXT, TOOL_CALL, TOOL_RESULT}}

\* C12: the assembled input begins with the system prompt, its only system
\* entry, and ends with the current inbound message, which adds no other
\* entry: whatever rows are stored, whatever the limit, also when the
\* message is empty.
C12_SystemFirstCurrentLast ==
    pc = "Formatted" =>
        /\ formatted_messages[1] = TextEntry(<<"system">>, chat_settings.system_prompt)
        /\ \A k \in 2..Len(formatted_messages) :
               ~(formatted_messages[k].type = "message"
                 /\ formatted_messages[k].role = <<"system">>)
        /\ formatted_messages[Len(formatted_messages)]
               = TextEntry(<<"user">>, user_message.content)
        /\ Len(formatted_messages) = 2 + Cardinality(Replayed)

\* An empty inbound message that is stored, in a window that leaves a row
\* out and replays another.
C12_Witness ==
    /\ pc = "Formatted"
    /\ user_message.content = <<>>
    /\ \E k \in Window : messages[k].id = user_message.id
    /\ Len(messages) > history_limit
    /\ Replayed # {}


\* C13: every text entry of the assembled input has a content that is a
\* string, never null: a null content of a stored or of the inbound message
\* is sent as "".
C13_TextContentNeverNull ==
    pc = "Formatted" =>
        \A k \in 1..Len(formatted_messages) :
            formatted_messages[k].type = "message" =>
                formatted_messages[k].content # None

\* The part of C13 the code keeps: the text entries before the last, the
\* system prompt and the replayed rows, have a content that is a string.
C13_HistoryContentNeverNull ==
    pc = "Formatted" =>
        \A k \in 1..(Len(formatted_messages) - 1) :
            formatted_messages[k].type = "message" =>
                formatted_messages[k].content # None

-----------------------------------------------------------------------------
(* Execution Engine: execute_api_tool, _prepare_request_params,            *)
(* _make_http_request and _process_response                                *)

\* sub in s
Contains(s, sub) ==
    \E i \in 1..(Len(s) - Len(sub) + 1) : SubSeq(s, i, i + Len(sub) - 1) = sub

\* s.upper(), on the ASCII letters
UpperChar(c) ==
    IF c \in LowerCase
    THEN UpperSeq[CHOOSE i \in 1..Len(LowerSeq) : LowerSeq[i] = c]
    ELSE c
Upper(s) == [i \in 1..Len(s) |-> UpperChar(s[i])]

\* What a call returns or raises: a value, or an exception.
Returns(value) == [result |-> value, raised |-> NoObject]
Raises(exception) == [result |-> None, raised |-> exception]

\* The exceptions of the engine, all of them subclasses of Exception.
TypeError == [class |-> "TypeError", text |-> <<"<argument of the wrong type>">>]
AttributeError == [class |-> "AttributeError", text |-> <<"'NoneType' object has no attribute 'lower'">>]
ValueError(method) == [class |-> "ValueError", text |-> <<"Unsupported HTTP method: ">> \o method]
ConnectError == [class |-> "ConnectError", text |-> <<"All connection attempts failed">>]
ReadTimeout == [class |-> "ReadTimeout", text |-> <<>>]
UnicodeDecodeError == [class |-> "UnicodeDecodeError", text |-> <<"<codec can't decode>">>]
HTTPStatusError(http_response) == [class |-> "HTTPStatusError", text |-> <<"<status error>">>, response |-> http_response]

\* The arguments the model supplied: a dict with the given keys, None, or a
\* list of the given items.  name in arguments, and arguments[name] after it,
\* raise TypeError for what is no dict.
GatherRaises(declared, arguments) ==
    /\ declared # {}
    /\ \/ arguments.kind = "none"
       \/ arguments.kind = "list" /\ declared \cap arguments.keys # {}

\* The declared names that are keys of the arguments.
Gathered(declared, arguments) ==
    IF arguments.kind = "dict" THEN declared \cap arguments.keys ELSE {}

\* tool.configuration or {}: params are the names of config["params"] and
\* required the ones whose param_info is marked required.
EmptyConfig == [server_url |-> <<>>, headers |-> {}, params |-> {}, required |-> {}, body_schema |-> {}]

\* _prepare_request_params(config, arguments): headers, params and body,
\* params and body as the names whose argument values they hold.
_prepare_request_params(config, arguments) ==
    IF GatherRaises(config.params, arguments) \/ GatherRaises(config.body_schema, arguments)
    THEN Raises(TypeError)
    ELSE Returns([headers |-> config.headers,
                  params |-> Gathered(config.params, arguments),
                  body |-> Gathered(config.body_schema, arguments)])

\* headers[name] = value
SetHeader(headers, name, value) ==
    {h \in headers : h[1] # name} \cup {<<name, value>>}

\* The server URL: the tool's override, else scheme://netloc of the
\* request's own url, else the server of the linked API.
ServerUrlOf(config, api_request) ==
    IF config.server_url # <<>> /\ config.server_url # None THEN config.server_url
    ELSE IF api_request.url # None /\ api_request.url # <<>>
         THEN urlparse(api_request.url).scheme \o <<":", "/", "/">>
                  \o urlparse(api_request.url).netloc
         ELSE IF api_request.api # NoObject /\ api_request.api.server # None
                   /\ api_request.api.server # <<>>
              THEN api_request.api.server
              ELSE <<>>

\* f"{server_url}{endpoint}" if server_url else endpoint
FullUrl(server_url, endpoint) ==
    IF server_url # <<>>
    THEN server_url \o (IF endpoint = None THEN <<"N", "o", "n", "e">> ELSE endpoint)
    ELSE endpoint

\* The slip of taking any scheme for a protocol the client can call.
HasAnyScheme(full_url) ==
    Contains(full_url, <<":", "/", "/">>)
\* full_url.startswith(('http://', 'https://'))
HasProtocol(full_url) ==
    \/ StartsWith(full_url, <<"h", "t", "t", "p", ":", "/", "/">>)
    \/ StartsWith(full_url, <<"h", "t", "t", "p", "s", ":", "/", "/">>)

\* api_request.method.upper() if ... and api_request.method else "GET"
MethodOf(api_request) ==
    IF api_request.method # None /\ api_request.method # <<>>
    THEN Upper(api_request.method)
    ELSE <<"G", "E", "T">>

GET == <<"G", "E", "T">>
POST == <<"P", "O", "S", "T">>
PUT == <<"P", "U", "T">>
DELETE == <<"D", "E", "L", "E", "T", "E">>

api_key == <<"sk-provider-key">>
Bearer(key) == <<"Bearer ">> \o key

\* if "openai.com" in full_url: the Authorization header, and the
\* Content-Type for POST and PUT.
WithProviderKey(headers, method, full_url) ==
    IF Contains(full_url, <<"o", "p", "e", "n", "a", "i", ".", "c", "o", "m">>)
    THEN IF method = POST \/ method = PUT
         THEN SetHeader(SetHeader(headers, "Authorization", Bearer(api_key)),
                        "Content-Type", <<"application/json">>)
         ELSE SetHeader(headers, "Authorization", Bearer(api_key))
    ELSE headers

\* The call of _make_http_request that execute_api_tool ends with.
HttpCall(method, url, headers, params, body) ==
    [method |-> method, url |-> url, headers |-> headers, params |-> params, body |-> body]

\* Lines 713-765, for prepared = _prepare_request_params(config, arguments)
\* that did not raise: the names of the request_body_schema are added to the
\* body, the endpoint is lowered for the log, the provider key is added.
CallWithPrepared(api_request, arguments, method, full_url, prepared) ==
    IF GatherRaises(api_request.request_body_schema, arguments) THEN Raises(TypeError)
    ELSE IF api_request.path = None THEN Raises(AttributeError)
    ELSE Returns(HttpCall(method, full_url,
                          WithProviderKey(prepared.headers, method, full_url),
                          prepared.params,
                          prepared.body
                              \cup Gathered(api_request.request_body_schema, arguments)))

\* Lines 707-765, for the URL that was put together.
CallForUrl(tool, config, arguments, full_url, prepared) ==
    IF full_url = None \/ full_url = <<>>
    THEN Returns([text |-> <<"Error: Could not determine URL for API request ">>
                               \o tool.api_request.id])
    ELSE IF ~HasProtocol(full_url)
    THEN Returns([text |-> <<"Error: Invalid URL ">> \o full_url
                               \o <<". URL must start with http:// or https://">>])
    ELSE IF prepared.raised # NoObject THEN prepared
    ELSE CallWithPrepared(tool.api_request, arguments, MethodOf(tool.api_request),
                          full_url, prepared.result)

\* The try block of execute_api_tool up to its last line: the text of an
\* early return, the call of _make_http_request, or an exception.
BuildHttpCall(tool, config, arguments) ==
    IF tool.api_request = NoObject
    THEN Returns([text |-> <<"Error: No API request associated with tool ">> \o tool.id
                               \o <<" (">> \o tool.name \o <<")">>])
    ELSE CallForUrl(tool, config, arguments,
                    FullUrl(ServerUrlOf(config, tool.api_request), tool.api_request.path),
                    _prepare_request_params(config, arguments))

\* error_msg = f"Error code: {e.response.status_code} - {e.response.text}"
ErrorCodeText(http_response) ==
    <<"Error code: ", ToString(http_response.status_code), " - ", http_response.text>>

\* The request the client sends: json=body for POST and PUT only.
SupportedMethods == {GET, POST, PUT, DELETE}
SentRequest(call) ==
    [method |-> call.method, url |-> call.url, headers |-> call.headers,
     params |-> call.params,
     json |-> IF call.method = POST \/ call.method = PUT
              THEN [properties |-> call.body]
              ELSE NoObject]

\* audio_type_to_extension, in its order
audio_type_to_extension ==
    <<<<<<"a", "u", "d", "i", "o", "/", "m", "p", "e", "g">>, <<".mp3">>>>, <<<<"a", "u", "d", "i", "o", "/", "m", "p", "3">>, <<".mp3">>>>,
      <<<<"a", "u", "d", "i", "o", "/", "o", "p", "u", "s">>, <<".opus">>>>, <<<<"a", "u", "d", "i", "o", "/", "a", "a", "c">>, <<".aac">>>>,
      <<<<"a", "u", "d", "i", "o", "/", "f", "l", "a", "c">>, <<".flac">>>>, <<<<"a", "u", "d", "i", "o", "/", "w", "a", "v">>, <<".wav">>>>,
      <<<<"a", "u", "d", "i", "o", "/", "w", "a", "v", "e">>, <<".wav">>>>, <<<<"a", "u", "d", "i", "o", "/", "o", "g", "g">>, <<".ogg">>>>>>

\* The extension of the first audio type that is in content_type, None if
\* none is.
FileExtension(content_type) ==
    IF \E k \in 1..Len(audio_type_to_extension) :
           Contains(content_type, audio_type_to_extension[k][1])
    THEN audio_type_to_extension[
             CHOOSE k \in 1..Len(audio_type_to_extension) :
                 /\ Contains(content_type, audio_type_to_extension[k][1])
                 /\ \A h \in 1..(k - 1) :
                        ~Contains(content_type, audio_type_to_extension[h][1])][2]
    ELSE None

\* is_audio_response
UrlSuggestsAudio(url) == Contains(Lower(url), <<"/", "a", "u", "d", "i", "o", "/">>)

\* The JSON and text processing of _process_response: json.dumps of the
\* decoded body, response.text when the body is no JSON; bytes that are no
\* text make response.json() raise what the except clause does not name.
JsonOrText(http_response) ==
    IF Contains(Lower(http_response.content_type), <<"a", "p", "p", "l", "i", "c", "a", "t", "i", "o", "n", "/", "j", "s", "o", "n">>)
    THEN IF http_response.body_kind = "json"
         THEN Returns(<<"<json.dumps(", http_response.text, ", indent=2)>">>)
         ELSE IF http_response.body_kind = "undecodable"
              THEN Raises(UnicodeDecodeError)
              ELSE Returns(<<http_response.text>>)
    ELSE Returns(<<http_response.text>>)

\* _process_response(response, url); write_ok tells whether the audio file
\* could be written.
_process_response(http_response, url, write_ok) ==
    IF (FileExtension(Lower(http_response.content_type)) # None \/ UrlSuggestsAudio(url))
           /\ write_ok
    THEN Returns(<<"Audio file generated and saved as ", "/tmp/api_audio_output_",
                   "<uuid4>">>
                 \o (IF FileExtension(Lower(http_response.content_type)) # None
                     THEN FileExtension(Lower(http_response.content_type))
                     ELSE <<".mp3">>)
                 \o <<". You can listen to it or download it.">>)
    ELSE JsonOrText(http_response)

\* response.is_success
IsSuccess(status_code) == status_code >= 200 /\ status_code <= 299

\* The slip of normalising the response before its status is looked at.
ResponseOutcomeNoStatusCheck(outcome, url) ==
    IF outcome.kind = "exception"
    THEN [normalized |-> FALSE, value |-> Raises(outcome.exception)]
    ELSE [normalized |-> TRUE,
          value |-> _process_response(outcome.response, url, outcome.write_ok)]

\* The try block of _make_http_request once the client call is over: the
\* exception of the client, that of raise_for_status for a response that is
\* no success, or what _process_response gives.
ResponseOutcome(outcome, url) ==
    IF outcome.kind = "exception"
    THEN [normalized |-> FALSE, value |-> Raises(outcome.exception)]
    ELSE IF ~IsSuccess(outcome.response.status_code)
    THEN [normalized |-> FALSE, value |-> Raises(HTTPStatusError(outcome.response))]
    ELSE [normalized |-> TRUE,
          value |-> _process_response(outcome.response, url, outcome.write_ok)]

\* The except clauses of _make_http_request.
MakeRequestExcept(value) ==
    IF value.raised = NoObject THEN value
    ELSE IF value.raised.class = "HTTPStatusError"
    THEN Returns(ErrorCodeText(value.raised.response))
    ELSE Returns(<<"Error making HTTP request: ">> \o value.raised.text)

\* The slip of an execute_api_tool that handles the status error only.
ExecuteExceptStatusOnly(value) ==
    IF value.raised = NoObject THEN value
    ELSE IF value.raised.class = "HTTPStatusError"
    THEN Returns(ErrorCodeText(value.raised.response))
    ELSE value

\* The except clauses of execute_api_tool.
ExecuteExcept(value) ==
    IF value.raised = NoObject THEN value
    ELSE IF value.raised.class = "HTTPStatusError"
    THEN Returns(ErrorCodeText(value.raised.response))
    ELSE Returns(<<"Error executing API tool: ">> \o value.raised.text)

\* execute_api_tool is left with the value.
Finish(value) ==
    /\ exec_result' = value.result
    /\ exec_raised' = value.raised
    /\ exec_pc' = "Returned"

\* _make_http_request(call) up to the client call: a method that is not
\* supported raises inside the try block and no request is sent.
MakeHttpRequest(call) ==
    IF call.method \in SupportedMethods
    THEN /\ exec_request' = SentRequest(call)
         /\ exec_pc' = "InFlight"
         /\ UNCHANGED <<exec_result, exec_raised>>
    ELSE /\ exec_request' = NoObject
         /\ Finish(ExecuteExcept(MakeRequestExcept(Raises(ValueError(call.method)))))

\* execute_api_tool for what its try block built.
Proceed(built) ==
    IF built.raised # NoObject
    THEN exec_request' = NoObject /\ Finish(ExecuteExcept(built))
    ELSE IF "text" \in DOMAIN built.result
    THEN exec_request' = NoObject /\ Finish(Returns(built.result.text))
    ELSE MakeHttpRequest(built.result)

\* tool.configuration or {}
ConfigOf(tool) ==
    IF tool.configuration = NoObject THEN EmptyConfig ELSE tool.configuration

\* execute_api_tool(tool, arguments), up to the request it awaits.
ExecuteApiTool(tool, arguments) ==
    /\ exec_pc = "Idle"
    /\ exec_tool' = tool
    /\ exec_arguments' = arguments
    /\ exec_normalized' = FALSE
    /\ Proceed(BuildHttpCall(tool, ConfigOf(tool), arguments))
    /\ UNCHANGED <<exec_outcome, sanVars, mapVars, resVars, fmtVars, turnVars, conVars, rndVars>>

\* The client call is over and _make_http_request, then execute_api_tool,
\* return.
HttpReturns(outcome) ==
    /\ exec_pc = "InFlight"
    /\ exec_outcome' = outcome
    /\ exec_normalized' = ResponseOutcome(outcome, exec_request.url).normalized
    /\ Finish(ExecuteExcept(MakeRequestExcept(
                  ResponseOutcome(outcome, exec_request.url).value)))
    /\ UNCHANGED <<exec_tool, exec_arguments, exec_request,
                   sanVars, mapVars, resVars, fmtVars, turnVars, conVars, rndVars>>

-----------------------------------------------------------------------------
(* The specification of execute_api_tool: one call, for a tool, arguments  *)
(* and an outcome of the HTTP request out of the sets below                *)

ExecPaths == {<<"/", "v", "1", "/", "i", "t", "e", "m", "s">>, <<"/", "o", "p", "e", "n", "a", "i", ".", "c", "o", "m", "/", "f", "i", "l", "e", "s">>, <<"/", "v", "1", "/", "a", "u", "d", "i", "o", "/", "s", "p", "e", "e", "c", "h">>, <<>>, None}
ExecMethods == {<<"p", "o", "s", "t">>, <<"G", "E", "T">>, <<"p", "u", "t">>, <<"D", "E", "L", "E", "T", "E">>, <<"P", "A", "T", "C", "H">>, None}
ExecUrls == {None, <<"h", "t", "t", "p", "s", ":", "/", "/", "a", "p", "i", ".", "e", "x", "a", "m", "p", "l", "e", ".", "c", "o", "m", "/", "b", "a", "s", "e", "?", "x", "=", "1">>, <<"/", "r", "e", "l", "a", "t", "i", "v", "e">>}
ExecApis ==
    {NoObject,
     [server |-> <<"h", "t", "t", "p", "s", ":", "/", "/", "a", "p", "i", ".", "o", "p", "e", "n", "a", "i", ".", "c", "o", "m">>],
     [server |-> <<"h", "t", "t", "p", "s", ":", "/", "/", "o", "p", "e", "n", "a", "i", ".", "c", "o", "m", ".", "e", "v", "i", "l", ".", "n", "e", "t">>],
     [server |-> <<"f", "t", "p", ":", "/", "/", "f", "i", "l", "e", "s", ".", "e", "x", "a", "m", "p", "l", "e", ".", "c", "o", "m">>]}

ExecApiRequests ==
    [id : {<<"r1">>}, path : ExecPaths, method : ExecMethods, url : ExecUrls,
     api : ExecApis, request_body_schema : {{}, {"q"}}]

ExecConfigs ==
    {NoObject,
     [server_url |-> <<"h", "t", "t", "p", "s", ":", "/", "/", "t", "o", "o", "l", "s", ".", "e", "x", "a", "m", "p", "l", "e", ".", "o", "r", "g">>,
      headers |-> {<<"X-Api-Key", <<"k1">>>>}, params |-> {"limit", "page"},
      required |-> {"page"}, body_schema |-> {"q"}],
     [server_url |-> <<>>,
      headers |-> {<<"Authorization", <<"Bearer ", "tool-token">>>>},
      params |-> {}, required |-> {}, body_schema |-> {}]}

ExecTool(api_request, configuration) ==
    [id |-> <<"a1b2c3d4">>, name |-> <<"items">>, api_request_id |-> <<"r1">>,
     api_request |-> api_request, configuration |-> configuration]

ExecTools ==
    {ExecTool(api_request, configuration) :
        api_request \in ExecApiRequests \cup {NoObject}, configuration \in ExecConfigs}

ArgumentChoices ==
    {[kind |-> "dict", keys |-> {"q", "limit", "extra"}],
     [kind |-> "dict", keys |-> {}],
     [kind |-> "none", keys |-> {}],
     [kind |-> "list", keys |-> {"q"}]}

JsonType == <<"a", "p", "p", "l", "i", "c", "a", "t", "i", "o", "n", "/", "j", "s", "o", "n">>
TextType == <<"t", "e", "x", "t", "/", "p", "l", "a", "i", "n">>
AudioType == <<"a", "u", "d", "i", "o", "/", "m", "p", "e", "g">>

HttpResponse(status_code, content_type, body_kind) ==
    [status_code |-> status_code, content_type |-> content_type,
     body_kind |-> body_kind, text |-> "<body>"]

\* The outcomes of the client call: an exception of the transport, or a
\* response, with whether an audio file can be written for it.
ClientOutcomes ==
    {[kind |-> "exception", exception |-> e] : e \in {ConnectError, ReadTimeout}}
        \cup {[kind |-> "response", response |-> r, write_ok |-> w] :
                 r \in {HttpResponse(200, JsonType, "json"),
                        HttpResponse(200, JsonType, "malformed"),
                        HttpResponse(200, JsonType, "undecodable"),
                        HttpResponse(200, TextType, "text"),
                        HttpResponse(200, AudioType, "undecodable"),
                        HttpResponse(204, <<>>, "text"),
                        HttpResponse(301, TextType, "text"),
                        HttpResponse(404, JsonType, "json"),
                        HttpResponse(500, AudioType, "undecodable")},
                 w \in BOOLEAN}

ExeInit ==
    /\ NoTurn
    /\ NoExecution
    /\ NoConcurrency
    /\ tool_name_to_id_map = <<>>
    /\ san_name = None
    /\ san_result = None
    /\ last_registered = <<>>
    /\ replaced = None
    /\ lookup_name = None
    /\ lookup_result = None
    /\ fmt_tools = <<>>
    /\ openai_tools = <<>>
    /\ fmt_calls = 0

ExeNext ==
    \/ /\ exec_pc = "Idle"
       /\ \E tool \in ExecTools, arguments \in ArgumentChoices :
              ExecuteApiTool(tool, arguments)
    \/ /\ exec_pc = "InFlight"
       /\ \E outcome \in ClientOutcomes : HttpReturns(outcome)

SpecExecute == ExeInit /\ [][ExeNext]_vars

-----------------------------------------------------------------------------
(* What execute_api_tool returns and sends *)

\* C14: execute_api_tool returns a string and no exception leaves it,
\* whatever the tool, the arguments (a dict, None, a list) and the outcome of
\* the HTTP request are.
C14_AlwaysReturnsString ==
    exec_pc = "Returned" => exec_result # None /\ exec_raised = NoObject

\* Arguments that are None made the gathering of the declared names raise,
\* and the call returned the text of the error.
C14_Witness ==
    /\ exec_pc = "Returned"
    /\ exec_arguments.kind = "none"
    /\ exec_request = NoObject
    /\ exec_result = <<"Error executing API tool: ">> \o TypeError.text


\* C15: for every response to the tool request whose status is not 2xx, the
\* result is "Error code: <status> - <body>" with that response's status and
\* body, and the response was not handed to _process_response.
C15_ErrorCodeForNon2xx ==
    (/\ exec_pc = "Returned"
     /\ exec_outcome # NoObject
     /\ exec_outcome.kind = "response"
     /\ exec_outcome.response.status_code \notin 200..299) =>
        /\ exec_result = <<"Error code: ", ToString(exec_outcome.response.status_code),
                           " - ", exec_outcome.response.text>>
        /\ ~exec_normalized

\* A 404 with an audio URL and a JSON body came back and the result names
\* the status.
C15_Witness ==
    /\ exec_pc = "Returned"
    /\ exec_outcome # NoObject
    /\ exec_outcome.kind = "response"
    /\ exec_outcome.response.status_code = 404
    /\ UrlSuggestsAudio(exec_request.url)
    /\ exec_result[2] = "404"


\* The host of a URL: the netloc without user information and port, in
\* lower case.
AfterUserInfo(netloc) ==
    IF \E i \in 1..Len(netloc) : netloc[i] = "@"
    THEN Drop(netloc, CHOOSE i \in 1..Len(netloc) :
                          netloc[i] = "@" /\ \A k \in (i + 1)..Len(netloc) : netloc[k] # "@")
    ELSE netloc
HostName(url) ==
    Lower(Take(AfterUserInfo(urlparse(url).netloc),
               IF FindAny(AfterUserInfo(urlparse(url).netloc), {":"}) = 0
               THEN Len(urlparse(url).netloc)
               ELSE FindAny(AfterUserInfo(urlparse(url).netloc), {":"}) - 1))

\* The host of the provider's API.
ProviderApiHost == <<"a", "p", "i", ".", "o", "p", "e", "n", "a", "i", ".", "c", "o", "m">>

\* C16: the tool request carries Authorization: Bearer <provider key> if and
\* only if the host of its URL is the provider's API host.
C16_ProviderKeyOnlyToProvider ==
    exec_request # NoObject =>
        (<<"Authorization", Bearer(api_key)>> \in exec_request.headers
            <=> HostName(exec_request.url) = ProviderApiHost)

\* The part of C16 the code keeps: a request to the provider's API host
\* carries the provider key.
C16_ProviderGetsKey ==
    (exec_request # NoObject /\ HostName(exec_request.url) = ProviderApiHost) =>
        <<"Authorization", Bearer(api_key)>> \in exec_request.headers


-----------------------------------------------------------------------------
(* The specification of the shared helper: two turns run as coroutines of  *)
(* the event loop and one listing of the provider tools runs on a thread   *)
(* of the pool, all on the OpenAIHelper of the module                      *)

\* The coroutines of get_openai_response, and the threads of
\* get_openai_tools_for_chat (a plain def endpoint runs on the thread pool).
TurnProcs == {"turn_a", "turn_b"}
ListProcs == {"list_tools"}
Procs == TurnProcs \cup ListProcs

\* The tool lists of the chat settings the turns and the listing work for.
TurnToolLists == {<<WeatherTool>>, <<ItemsTool>>, <<ItemsToolAgain>>, <<WeatherTool, RootTool>>}
ListedToolLists == TurnToolLists \cup {<<RootTool, WeatherTool>>}
SharedToolLists(p) == IF p \in TurnProcs THEN TurnToolLists ELSE ListedToolLists

\* The calls of _register_tool_name_mapping that format_tools_for_openai
\* makes for a tool list, in order, as pairs of name and tool id.
RECURSIVE Registrations(_)
Registrations(tool_list) ==
    IF tool_list = <<>> THEN <<>>
    ELSE (IF FunctionToolName(tool_list[1]) # None
          THEN <<<<FunctionToolName(tool_list[1]), tool_list[1].id>>>>
          ELSE <<>>) \o Registrations(Tail(tool_list))

\* No name is registered for two different tool ids, by whichever turn or
\* listing.
NoNameForTwoIds(lists) ==
    \A p, q \in DOMAIN lists :
        \A i \in 1..Len(Registrations(lists[p])), j \in 1..Len(Registrations(lists[q])) :
            Registrations(lists[p])[i][1] = Registrations(lists[q])[j][1]
                => Registrations(lists[p])[i][2] = Registrations(lists[q])[j][2]

\* A lookup that has not been made, and a lookup that raised KeyError.
NotLookedUp == <<"<not looked up>">>
KeyErrorRaised == <<"<KeyError>">>

\* A turn or listing that has not started.
NewProc(tool_list) ==
    [regs |-> Registrations(tool_list), pc |-> "Start", i |-> 1, ref |-> 0,
     call |-> None, found |-> FALSE, site |-> 0,
     canonical |-> NotLookedUp, executed |-> NotLookedUp]

ConInit ==
    /\ NoTurn
    /\ NoExecution
    /\ tool_name_to_id_map = <<>>
    /\ san_name = None
    /\ san_result = None
    /\ last_registered = <<>>
    /\ replaced = None
    /\ lookup_name = None
    /\ lookup_result = None
    /\ fmt_tools = <<>>
    /\ openai_tools = <<>>
    /\ fmt_calls = 0
    /\ helper_map = 0
    /\ dicts = <<>>
    /\ loop_owner = NoOwner
    /\ round = BetweenCalls
    /\ \E lists \in [Procs -> ListedToolLists] :
           /\ \A p \in Procs : lists[p] \in SharedToolLists(p)
           /\ NoNameForTwoIds(lists)
           /\ procs = [p \in Procs |-> NewProc(lists[p])]

\* The event loop runs one coroutine at a time, up to its next await; the
\* thread of a listing runs whenever the interpreter switches to it.
MayRun(p) == p \in ListProcs \/ loop_owner \in {NoOwner, p}
Holds(p, pc_after) ==
    IF p \in ListProcs THEN loop_owner
    ELSE IF pc_after \in {"InFlight", "Done"} THEN NoOwner ELSE p

\* Where a turn or listing goes on after a registration, or with none to
\* make: the next tool, or the end of format_tools_for_openai.
AfterRegistration(p, i) ==
    IF i <= Len(procs[p].regs) THEN "CheckAttr"
    ELSE IF p \in TurnProcs THEN "AwaitingFirstResponse" ELSE "Done"

Step(p, changed) ==
    /\ procs' = [procs EXCEPT ![p] = changed]
    /\ loop_owner' = Holds(p, changed.pc)
    /\ UNCHANGED <<sanVars, mapVars, resVars, fmtVars, turnVars, exeVars, rndVars>>

\* format_tools_for_openai is entered.
StartFormat(p) ==
    /\ procs[p].pc = "Start"
    /\ MayRun(p)
    /\ Step(p, [procs[p] EXCEPT !.pc = AfterRegistration(p, 1)])
    /\ UNCHANGED <<helper_map, dicts>>

\* _register_tool_name_mapping: if not hasattr(self, '_tool_name_to_id_map')
CheckAttr(p) ==
    /\ procs[p].pc = "CheckAttr"
    /\ MayRun(p)
    /\ Step(p, [procs[p] EXCEPT !.pc = IF helper_map = 0 THEN "InitAttr" ELSE "LoadAttr"])
    /\ UNCHANGED <<helper_map, dicts>>

\* self._tool_name_to_id_map = {}
InitAttr(p) ==
    /\ procs[p].pc = "InitAttr"
    /\ MayRun(p)
    /\ dicts' = Append(dicts, <<>>)
    /\ helper_map' = Len(dicts) + 1
    /\ Step(p, [procs[p] EXCEPT !.pc = "LoadAttr"])

\* self._tool_name_to_id_map[tool_name] = tool_id: the attribute is loaded
LoadAttr(p) ==
    /\ procs[p].pc = "LoadAttr"
    /\ MayRun(p)
    /\ Step(p, [procs[p] EXCEPT !.pc = "StoreItem", !.ref = helper_map])
    /\ UNCHANGED <<helper_map, dicts>>

\* ... and the item is stored in the dict that was loaded.
StoreItem(p) ==
    /\ procs[p].pc = "StoreItem"
    /\ MayRun(p)
    /\ dicts' = [dicts EXCEPT ![procs[p].ref] =
                    _register_tool_name_mapping(@, procs[p].regs[procs[p].i][1],
                                                procs[p].regs[procs[p].i][2])]
    /\ Step(p, [procs[p] EXCEPT !.pc = AfterRegistration(p, procs[p].i + 1),
                                !.i = procs[p].i + 1])
    /\ UNCHANGED helper_map

\* The names the turn declared to the provider.
DeclaredNames(p) == {procs[p].regs[i][1] : i \in 1..Len(procs[p].regs)}

\* The first response holds no function call, or one that names a function
\* the turn declared; handle_tool_calls_with_array starts on it.
FirstResponseArrives(p, name) ==
    /\ procs[p].pc = "AwaitingFirstResponse"
    /\ MayRun(p)
    /\ Step(p, IF name = None
               THEN [procs[p] EXCEPT !.pc = "Done"]
               ELSE [procs[p] EXCEPT !.pc = "LookupCheck", !.call = name, !.site = 1226])
    /\ UNCHANGED <<helper_map, dicts>>

\* The dict the attribute refers to now, empty without the attribute.
CurrentDict == IF helper_map = 0 THEN <<>> ELSE dicts[helper_map]

\* _get_tool_id_by_name: hasattr(...) and function_name in self._tool_name_to_id_map
LookupCheck(p) ==
    /\ procs[p].pc = "LookupCheck"
    /\ MayRun(p)
    /\ Step(p, [procs[p] EXCEPT !.pc = "LookupRead",
                                !.found = procs[p].call \in MapKeys(CurrentDict)])
    /\ UNCHANGED <<helper_map, dicts>>

\* The value _get_tool_id_by_name ends with: the item of the dict the
\* attribute refers to now, KeyError if it is not there any more, and the
\* legacy prefix match if the name was not found.
LookupValue(found, function_name) ==
    IF found
    THEN IF function_name \in MapKeys(CurrentDict)
         THEN CurrentDict[KeyIndex(CurrentDict, function_name)][2]
         ELSE KeyErrorRaised
    ELSE _get_tool_id_by_name(CurrentDict, function_name)

\* The turn after the lookup at line 1226 (the canonical name) and after
\* the one at line 1103 (the tool to execute): an exception ends the turn,
\* a tool that was found is requested over HTTP.
AfterLookup(p, value) ==
    IF procs[p].site = 1226
    THEN [procs[p] EXCEPT !.canonical = value,
                          !.site = IF value = KeyErrorRaised THEN 1226 ELSE 1103,
                          !.pc = IF value = KeyErrorRaised THEN "Done" ELSE "LookupCheck"]
    ELSE [procs[p] EXCEPT !.executed = value,
                          !.pc = IF value \in {None, KeyErrorRaised} THEN "Done" ELSE "InFlight"]

LookupRead(p) ==
    /\ procs[p].pc = "LookupRead"
    /\ MayRun(p)
    /\ Step(p, AfterLookup(p, LookupValue(procs[p].found, procs[p].call)))
    /\ UNCHANGED <<helper_map, dicts>>

\* The HTTP request of the tool is over; the turn goes on to its end.
ToolReturns(p) ==
    /\ procs[p].pc = "InFlight"
    /\ MayRun(p)
    /\ Step(p, [procs[p] EXCEPT !.pc = "Done"])
    /\ UNCHANGED <<helper_map, dicts>>

ConNext ==
    \E p \in Procs :
        \/ StartFormat(p)
        \/ CheckAttr(p)
        \/ InitAttr(p)
        \/ LoadAttr(p)
        \/ StoreItem(p)
        \/ /\ p \in TurnProcs
           /\ procs[p].pc = "AwaitingFirstResponse"
           /\ \E name \in DeclaredNames(p) \cup {None} : FirstResponseArrives(p, name)
        \/ LookupCheck(p)
        \/ LookupRead(p)
        \/ ToolReturns(p)

SpecConcurrent == ConInit /\ [][ConNext]_vars

\* The tool id the turn's own formatting registered for the name it was
\* called with.
OwnToolId(p) ==
    procs[p].regs[CHOOSE i \in 1..Len(procs[p].regs) :
                      /\ procs[p].regs[i][1] = procs[p].call
                      /\ \A j \in (i + 1)..Len(procs[p].regs) :
                             procs[p].regs[j][1] # procs[p].call][2]

\* C17: no name is registered for two different tool ids (ConInit), and
\* under every interleaving each tool call of a turn resolves, at both
\* lookups, to the tool id the turn's own formatting registered for its name.
C17_ResolvesToOwnRegistration ==
    \A p \in TurnProcs :
        /\ procs[p].canonical # NotLookedUp => procs[p].canonical = OwnToolId(p)
        /\ procs[p].executed # NotLookedUp => procs[p].executed = OwnToolId(p)

\* What holds of the code: a call resolves to another value only after the
\* dict of the helper has been created more than once.
C17_WrongOnlyAfterSecondDict ==
    Len(dicts) <= 1 => C17_ResolvesToOwnRegistration


-----------------------------------------------------------------------------
(* The states a turn moves through *)

\* The moves of the state machine of the turn orchestrator.
ListedMoves ==
    {<<"AwaitingFirstResponse", "Done">>,
     <<"AwaitingFirstResponse", "HasToolCalls">>,
     <<"HasToolCalls", "ExecutingTools">>,
     <<"ExecutingTools", "AwaitingSecondResponse">>,
     <<"AwaitingSecondResponse", "Done">>}

\* A turn starts with the first request, and ends when its answer is
\* stored.
TurnStartsAndEnds == {<<"Idle", "AwaitingFirstResponse">>, <<"Done", "Idle">>}

\* The moves that end a turn early: a conversation without chat settings,
\* and an exception in the tool round.
FailureMoves == {<<"Idle", "Done">>, <<"ExecutingTools", "Done">>}

\* The first provider call of the turn fails in this step.
FirstCallFailed ==
    pc = "AwaitingFirstResponse" /\ pc' = "Done" /\ tool_calls' = <<>> /\ response' = NoObject

\* When the first call fails the turn is over with one of the two texts
\* for that case, no tool was executed, no row was added and the first
\* request stays the only one.
FailsWithoutEffects ==
    FirstCallFailed =>
        /\ returned' \in {HttpErrorText, ConnectApology}
        /\ executed' = <<>>
        /\ tool_messages' = <<>>
        /\ messages' = messages
        /\ requests' = requests
        /\ Len(requests) = 1

\* C18 as stated: the turn moves only along AwaitingFirstResponse -> Done or
\* AwaitingFirstResponse -> HasToolCalls -> ExecutingTools ->
\* AwaitingSecondResponse -> Done, and a failing first call takes it to Done
\* with an apology, no tool executed, no row added, no second request.
C18_OnlyListedMoves ==
    [][/\ pc' # pc => <<pc, pc'>> \in ListedMoves \cup TurnStartsAndEnds
       /\ FailsWithoutEffects]_vars

\* C18, amended: besides the listed moves, a turn of a conversation without
\* chat settings is Done at once with the settings apology and no request,
\* and a commit that raises in the tool round takes the turn from
\* ExecutingTools to Done with the error apology and no second request; a
\* failing first call is as stated.
C18_ListedAndFailureMoves ==
    [][/\ pc' # pc => <<pc, pc'>> \in ListedMoves \cup TurnStartsAndEnds \cup FailureMoves
       /\ (pc = "Idle" /\ pc' = "Done") =>
              chat_settings = NoObject /\ returned' = SettingsApology /\ requests' = <<>>
       /\ (pc = "ExecutingTools" /\ pc' = "Done") =>
              db_failed' /\ returned' = ErrorApology(CommitError) /\ Len(requests') = 1
       /\ FailsWithoutEffects]_vars

\* The first call of a turn that declared tools failed: the turn is Done
\* with the apology, and nothing was executed or requested again.
C18_Witness ==
    /\ pc = "Done"
    /\ returned = ConnectApology
    /\ sent_tools # <<>>
    /\ response = NoObject
    /\ executed = <<>>
    /\ tool_messages = <<>>
    /\ Len(requests) = 1


-----------------------------------------------------------------------------
(* The specification of the tool round: the turns of Spec, with each round *)
(* of the loop of handle_tool_calls_with_array taken commit by commit and  *)
(* await by await                                                          *)

\* The tool of the call the loop is at, and what the rows of the call hold.
CurrentCall == tool_calls[tc_index]
CurrentTool == FindTool(chat_settings.tools, tool_name_to_id_map, CurrentCall.name)
CurrentCanonical == CanonicalToolName(chat_settings.tools, tool_name_to_id_map, CurrentCall.name)

\* _execute_tool awaits execute_api_tool for a tool that is linked to an API
\* request, and returns at once for every other.
AwaitsApi(tool) ==
    tool # NoObject /\ tool.api_request_id # None /\ tool.api_request_id # <<>>

\* The slip of going on to the next round of the loop without awaiting the
\* tool.
StartExecutionNoWait(tool_call_msg, tool) ==
    IF AwaitsApi(tool)
    THEN [stage |-> "Next", in_flight |-> Append(round.in_flight, tool_call_msg.tool_call_id),
          tool_call_msg |-> tool_call_msg, function_result |-> None]
    ELSE [stage |-> "HasResult", in_flight |-> round.in_flight,
          tool_call_msg |-> tool_call_msg,
          function_result |-> ExecuteFound(tool, tool_call_msg.openai_function_name,
                                           tool_call_msg.function_arguments, None)]

\* function_result = await self._execute_tool(...): the round after the
\* ToolCall row is committed.
StartExecution(tool_call_msg, tool) ==
    IF AwaitsApi(tool)
    THEN [stage |-> "InFlight", in_flight |-> Append(round.in_flight, tool_call_msg.tool_call_id),
          tool_call_msg |-> tool_call_msg, function_result |-> None]
    ELSE [stage |-> "HasResult", in_flight |-> round.in_flight,
          tool_call_msg |-> tool_call_msg,
          function_result |-> ExecuteFound(tool, tool_call_msg.openai_function_name,
                                           tool_call_msg.function_arguments, None)]

\* The round of a call up to the await: a dropped call is skipped; else the
\* ToolCall row is added and committed and _execute_tool is entered.
AppendToolCall(fault) ==
    /\ pc = "ExecutingTools"
    /\ round.stage = "Next"
    /\ tc_index <= Len(tool_calls)
    /\ IF Dropped(CurrentCall)
       THEN /\ tc_index' = tc_index + 1
            /\ UNCHANGED <<messages, executed, db_failed, pc, returned, next_id, round>>
       ELSE /\ next_id' = next_id + 1
            /\ IF fault = "tool_call"
               THEN /\ db_failed' = TRUE
                    /\ pc' = "Done"
                    /\ returned' = ErrorApology(CommitError)
                    /\ UNCHANGED <<messages, executed, tc_index, round>>
               ELSE /\ messages' = Append(messages,
                            _create_tool_call_message(next_id + 1, CurrentCall.id,
                                LinkingId(CurrentCall), CurrentCanonical, CurrentCall.name,
                                json_loads(CurrentCall.arguments)))
                    /\ round' = StartExecution(messages'[Len(messages')], CurrentTool)
                    /\ executed' =
                           IF AwaitsApi(CurrentTool) THEN executed
                           ELSE Append(executed,
                                    Execution(LinkingId(CurrentCall), CurrentCall.name,
                                              CurrentTool, round'.function_result))
                    /\ UNCHANGED <<tc_index, db_failed, pc, returned>>
    /\ UNCHANGED <<chat_settings, history_limit, user_message, formatted_messages,
                   sent_tools, response, tool_calls, tool_messages, requests,
                   turn_limit, item_limit, turn_no,
                   sanVars, mapVars, resVars, fmtVars, exeVars, conVars>>

\* execute_api_tool returns and _execute_tool with it.
ToolCallReturns(api_result) ==
    /\ pc = "ExecutingTools"
    /\ round.stage = "InFlight"
    /\ round' = [round EXCEPT
                    !.stage = "HasResult",
                    !.in_flight = SelectSeq(@, LAMBDA id : id # LinkingId(CurrentCall)),
                    !.function_result = api_result]
    /\ executed' = Append(executed,
                       Execution(LinkingId(CurrentCall), CurrentCall.name, CurrentTool, api_result))
    /\ UNCHANGED <<chat_settings, history_limit, messages, pc, user_message,
                   formatted_messages, sent_tools, response, tool_calls, tc_index,
                   tool_messages, returned, requests, db_failed, next_id,
                   turn_limit, item_limit, turn_no,
                   sanVars, mapVars, resVars, fmtVars, exeVars, conVars>>

\* The ToolResult row is added and committed, and both rows join the list
\* the loop returns; a commit that raises ends the turn.
AppendToolResult(fault) ==
    /\ pc = "ExecutingTools"
    /\ round.stage = "HasResult"
    /\ next_id' = next_id + 1
    /\ round' = BetweenCalls
    /\ IF fault = "tool_result"
       THEN /\ db_failed' = TRUE
            /\ pc' = "Done"
            /\ returned' = ErrorApology(CommitError)
            /\ UNCHANGED <<messages, tool_messages, tc_index>>
       ELSE /\ messages' = Append(messages,
                    _create_tool_result_message(next_id + 1, LinkingId(CurrentCall),
                        CurrentCanonical, CurrentCall.name, round.function_result))
            /\ tool_messages' = tool_messages \o <<round.tool_call_msg, messages'[Len(messages')]>>
            /\ tc_index' = tc_index + 1
            /\ UNCHANGED <<db_failed, pc, returned>>
    /\ UNCHANGED <<chat_settings, history_limit, user_message, formatted_messages,
                   sent_tools, response, tool_calls, requests, executed,
                   turn_limit, item_limit, turn_no,
                   sanVars, mapVars, resVars, fmtVars, exeVars, conVars>>

RoundNext ==
    \/ \E content \in UserContents : StartTurn(content)
    \/ \E kind \in {"HTTPStatusError", "Exception"} : FirstCallFails(kind)
    \/ /\ pc = "AwaitingFirstResponse"
       /\ \E output \in Outputs(sent_tools, item_limit, next_id),
             output_text \in OutputTexts :
              FirstResponse(output, output_text)
    \/ BeginToolCalls
    \/ \E fault \in {"none", "tool_call"} : AppendToolCall(fault)
    \/ /\ round.stage = "InFlight"
       /\ \E api_result \in ApiResults : ToolCallReturns(api_result)
    \/ \E fault \in {"none", "tool_result"} : AppendToolResult(fault)
    \/ SecondRequest
    \/ SecondCallFails
    \/ /\ pc = "AwaitingSecondResponse"
       /\ \E output \in SecondOutputs(sent_tools, next_id), output_text \in OutputTexts :
              SecondResponse(output, output_text)
    \/ FinishTurn

SpecRound == TurnInit /\ [][RoundNext]_vars

\* The rows the turn has added after the user message it answers.
TurnRows ==
    IF user_message = NoObject THEN <<>>
    ELSE SelectSeq(messages, LAMBDA msg : msg.id > user_message.id)

\* The calls of the first response that are not dropped, in its order.
ProcessedCalls == SelectSeq(tool_calls, LAMBDA call : ~Dropped(call))

\* C19: the calls are processed one after another in the order of the
\* response: the rows the turn has added alternate ToolCall, ToolResult, the
\* k-th pair belongs to the k-th call, a ToolCall row is added only when
\* every earlier one has its ToolResult, and at most one tool is awaited at
\* any time, the one of the last ToolCall row.
C19_OneCallAtATime ==
    pc \in {"ExecutingTools", "AwaitingSecondResponse", "Done"} =>
        /\ Len(round.in_flight) <= 1
        /\ Len(TurnRows) <= 2 * Len(ProcessedCalls)
        /\ \A k \in 1..Len(TurnRows) :
               /\ TurnRows[k].type = IF k % 2 = 1 THEN TOOL_CALL ELSE TOOL_RESULT
               /\ TurnRows[k].tool_call_id = LinkingId(ProcessedCalls[(k + 1) \div 2])
        /\ round.stage = "InFlight" =>
               /\ Len(TurnRows) % 2 = 1
               /\ round.in_flight = <<TurnRows[Len(TurnRows)].tool_call_id>>
        /\ (pc = "ExecutingTools" /\ round.stage = "Next") => Len(TurnRows) % 2 = 0

\* The second call of a response is awaited, after both rows of the first
\* were committed.
C19_Witness ==
    /\ pc = "ExecutingTools"
    /\ round.stage = "InFlight"
    /\ Len(TurnRows) = 3
    /\ TurnRows[2].type = TOOL_RESULT
    /\ TurnRows[3].tool_call_id # TurnRows[1].tool_call_id


-----------------------------------------------------------------------------
(* What the second request carries *)

\* The entries of the calls of the first response that were processed, with
\* the results _execute_tool gave: for each call in order its function_call
\* entry and then its function_call_output entry.
RECURSIVE RoundTripEntries(_, _)
RoundTripEntries(calls, executions) ==
    IF calls = <<>> \/ executions = <<>> THEN <<>>
    ELSE <<[type |-> "function_call", id |-> calls[1].id,
            call_id |-> LinkingId(calls[1]), name |-> calls[1].name,
            arguments |-> json_loads(calls[1].arguments)],
           [type |-> "function_call_output", call_id |-> LinkingId(calls[1]),
            output |-> executions[1].result]>>
         \o RoundTripEntries(Tail(calls), Tail(executions))

\* C20: the input of the second request is the input of the first request
\* followed by the ToolCall entry and then the ToolResult entry of each
\* processed call, in the order of the calls, and the second request carries
\* the tool list of the first.
C20_SecondRequestExtendsFirst ==
    Len(requests) = 2 =>
        /\ Len(executed) = Len(ProcessedCalls)
        /\ requests[2].input = requests[1].input \o RoundTripEntries(ProcessedCalls, executed)
        /\ requests[2].tools = requests[1].tools

\* A second request after two calls, one of them for a name no tool answers
\* to: four entries follow the input of the first request.
C20_Witness ==
    /\ Len(requests) = 2
    /\ Len(ProcessedCalls) = 2
    /\ Len(requests[2].input) = Len(requests[1].input) + 4
    /\ requests[2].tools # <<>>
    /\ \E k \in 1..2 : executed[k].tool_id = None


-----------------------------------------------------------------------------
(* The specification of a turn on the shared helper: while the turn is in  *)
(* its tool round, the tools of another conversation are formatted on the  *)
(* same OpenAIHelper                                                       *)

\* The tool lists of the other conversation: a tool that gets the name of a
\* tool of this conversation, and a tool with a name of its own.
OtherToolLists == {<<ItemsToolAgain>>, <<WeatherTool>>}

\* format_tools_for_openai for another conversation, from a turn that runs
\* while this one awaits or from get_openai_tools_for_chat.
OtherChatFormats(other_tools) ==
    /\ pc \in {"HasToolCalls", "ExecutingTools"}
    /\ tool_name_to_id_map' = format_tools_for_openai(tool_name_to_id_map, other_tools).map
    /\ tool_name_to_id_map' # tool_name_to_id_map
    /\ UNCHANGED <<sanVars, resVars, fmtVars, turnVars, exeVars, conVars, rndVars>>

SharedNext ==
    \/ Next
    \/ \E other_tools \in OtherToolLists : OtherChatFormats(other_tools)

SpecShared == TurnInit /\ [][SharedNext]_vars

\* The ids of the tools of the conversation.
OwnToolIds == {chat_settings.tools[k].id : k \in 1..Len(chat_settings.tools)}

\* C21: every call of the turn is served by a tool of the conversation's own
\* chat settings or, when none answers, ends with the not-found text; a
\* tool the conversation does not have is never executed, whatever id the
\* shared mapping holds for the called name.
C21_OnlyOwnToolsExecuted ==
    \A k \in 1..Len(executed) :
        \/ executed[k].tool_id \in OwnToolIds
        \/ /\ executed[k].tool_id = None
           /\ executed[k].result = <<"Tool not found for function: ">> \o executed[k].function_name

\* A call by a name the conversation declared, made when the mapping held
\* the id of the other conversation's tool for it: it was answered with the
\* not-found text.
C21_Witness ==
    /\ Len(executed) >= 1
    /\ executed[Len(executed)].function_name = FunctionToolName(ItemsTool)
    /\ _get_tool_id_by_name(tool_name_to_id_map, FunctionToolName(ItemsTool)) = ItemsToolAgain.id
    /\ executed[Len(executed)].tool_id = None


-----------------------------------------------------------------------------
(* Calls and results in the input built from the history *)

\* Every function_call_output entry of the input follows the function_call
\* entry with its call id.
ResultsFollowCalls(input) ==
    \A k \in 1..Len(input) :
        input[k].type = "function_call_output" =>
            \E j \in 1..(k - 1) :
                input[j].type = "function_call" /\ input[j].call_id = input[k].call_id

\* C22: in the sequence _format_conversation builds for the first request,
\* every ToolResult entry is preceded by the ToolCall entry with the same
\* call id, whatever the history and the history limit are.
C22_WindowKeepsPairs ==
    Len(requests) >= 1 => ResultsFollowCalls(requests[1].input)

\* What holds of the code: the pairs are whole when the limit leaves no
\* stored row out.
C22_PairsWithinLimit ==
    (Len(requests) >= 1 /\ Len(messages) <= history_limit) =>
        ResultsFollowCalls(requests[1].input)


-----------------------------------------------------------------------------
(* The calls the loop drops *)

\* The calls the loop has passed.
PassedCalls == SubSeq(tool_calls, 1, tc_index - 1)

\* A call without a function name, and a call without call_id.
LacksName(call) == call.name = None \/ call.name = <<>>
LacksCallId(call) == call.call_id = NoId

\* The passed calls that have a call_id and a name, and those that have a
\* name and a call_id or, failing that, an id.
WithCallIdAndName == SelectSeq(PassedCalls, LAMBDA call : ~LacksCallId(call) /\ ~LacksName(call))
WithSomeIdAndName ==
    SelectSeq(PassedCalls, LAMBDA call : ~(LacksCallId(call) /\ call.id = NoId) /\ ~LacksName(call))

\* Rows and executions exist for exactly the calls of kept, in order, and
\* the loop goes on to the end of the list.
OnlyKeptProcessed(kept) ==
    /\ Len(TurnRows) = 2 * Len(kept)
    /\ Len(executed) = Len(kept)
    /\ \A k \in 1..Len(kept) :
           /\ 2 * k <= Len(TurnRows)
           /\ TurnRows[2 * k - 1].type = TOOL_CALL
           /\ TurnRows[2 * k - 1].openai_tool_call_id = kept[k].id
           /\ TurnRows[2 * k - 1].openai_function_name = kept[k].name
           /\ TurnRows[2 * k].type = TOOL_RESULT
           /\ k <= Len(executed)
           /\ executed[k].function_name = kept[k].name
    /\ pc = "AwaitingSecondResponse" => Len(PassedCalls) = Len(tool_calls)

\* C23 as stated: a call without call_id or without name is dropped: it gets
\* no ToolCall or ToolResult row and no execution, and the other calls of
\* the turn are processed.
C23_DroppedWithoutCallIdOrName ==
    pc \in {"ExecutingTools", "AwaitingSecondResponse"} => OnlyKeptProcessed(WithCallIdAndName)

\* C23, amended: a call without name, or with neither call_id nor id, is
\* dropped: it gets no row and no execution, and the other calls of the turn
\* are processed; a call that lacks only call_id is processed under its id.
C23_DroppedWithoutAnyIdOrName ==
    pc \in {"ExecutingTools", "AwaitingSecondResponse"} => OnlyKeptProcessed(WithSomeIdAndName)

\* A response whose first call was dropped and whose second was processed:
\* the second request is out and the turn has the two rows of the second
\* call.
C23_Witness ==
    /\ pc = "AwaitingSecondResponse"
    /\ Len(tool_calls) = 2
    /\ LacksName(tool_calls[1]) \/ (LacksCallId(tool_calls[1]) /\ tool_calls[1].id = NoId)
    /\ Len(TurnRows) = 2
    /\ TurnRows[1].openai_tool_call_id = tool_calls[2].id
    /\ Len(executed) = 1


-----------------------------------------------------------------------------
(* The history part of the input *)

\* The entries between the system prompt and the current message.
HistoryPart == SubSeq(formatted_messages, 2, Len(formatted_messages) - 1)

\* C24: the history part holds one entry for each of the newest
\* message_history_limit rows that is not the message being answered (and
\* is a text, a tool call or a tool result), oldest first, and so at most
\* message_history_limit entries and none for an older row or for the
\* current message.
C24_RecentHistoryInOrder ==
    pc = "Formatted" =>
        /\ Len(HistoryPart) <= history_limit
        /\ Len(HistoryPart) = Cardinality(Replayed)
        /\ \E row \in [1..Len(HistoryPart) -> Replayed] :
               /\ \A j, k \in 1..Len(HistoryPart) : j < k => row[j] < row[k]
               /\ \A k \in 1..Len(HistoryPart) :
                      HistoryPart[k] = HistoryEntry(messages[row[k]])[1]
        /\ \A k \in 1..Len(messages) :
               messages[k].id = user_message.id => k \notin Replayed

\* Three stored rows and a limit of two: the oldest row is left out, the
\* current message is the newest row, and the tool result before it is the
\* whole history part.
C24_Witness ==
    /\ pc = "Formatted"
    /\ history_limit = 2
    /\ Len(messages) = 3
    /\ messages[1].type = TEXT
    /\ messages[2].type = TOOL_RESULT
    /\ user_message.id = messages[3].id
    /\ HistoryPart = <<FunctionCallOutputEntry(messages[2])>>


-----------------------------------------------------------------------------
(* The order in which a turn extends the stored transcript *)

\* The rows a step adds to the messages table.
AddedRows == SubSeq(messages', Len(messages) + 1, Len(messages'))

\* A ToolCall row directly followed by the ToolResult row of the same call.
IsCallThenResult(rows) ==
    /\ Len(rows) = 2
    /\ rows[1].type = TOOL_CALL
    /\ rows[2].type = TOOL_RESULT
    /\ rows[2].tool_call_id = rows[1].tool_call_id

\* The step that starts a turn commits the user message and nothing else,
\* before the first request is sent.
UserMessageFirst ==
    (pc = "Idle" /\ pc' # "Idle") =>
        /\ requests = <<>>
        /\ Len(AddedRows) = 1
        /\ AddedRows[1] = user_message'
        /\ AddedRows[1].role = <<"user">>

\* The step that ends a turn commits one assistant text row that holds the
\* string the turn returned, after the last request.
AssistantEntryLast ==
    (pc = "Done" /\ pc' # "Done") =>
        /\ pc' = "Idle"
        /\ returned # None
        /\ Len(AddedRows) = 1
        /\ [AddedRows[1] EXCEPT !.id = NoId] = TextMessage(NoId, None, returned, <<"assistant">>)

\* C25: a turn extends the transcript by the user message, then for each
\* executed call its ToolCall row directly followed by its ToolResult row,
\* then one assistant text row with the returned string; the user message
\* is committed before the first request and the assistant row after the
\* last, also when the string is an apology.
C25_TranscriptOrder ==
    [][/\ messages' = messages \o AddedRows
       /\ UserMessageFirst
       /\ AssistantEntryLast
       /\ pc \notin {"Idle", "Done"} =>
              /\ Len(executed') \in {Len(executed), Len(executed) + 1}
              /\ Len(executed') = Len(executed) => AddedRows = <<>>
              /\ Len(executed') = Len(executed) + 1 =>
                     /\ IsCallThenResult(AddedRows)
                     /\ AddedRows[1].tool_call_id = executed'[Len(executed')].call_id]_vars

\* What holds of the code: the order is kept, and an executed call lacks
\* its ToolResult row only when the commit of that row raised, which ends
\* the turn.
C25_OrderUpToFailedCommit ==
    [][/\ messages' = messages \o AddedRows
       /\ UserMessageFirst
       /\ AssistantEntryLast
       /\ pc \notin {"Idle", "Done"} =>
              /\ Len(executed') \in {Len(executed), Len(executed) + 1}
              /\ Len(executed') = Len(executed) => AddedRows = <<>>
              /\ Len(executed') = Len(executed) + 1 =>
                     \/ /\ IsCallThenResult(AddedRows)
                        /\ AddedRows[1].tool_call_id = executed'[Len(executed')].call_id
                     \/ /\ db_failed'
                        /\ pc' = "Done"
                        /\ Len(AddedRows) = 1
                        /\ AddedRows[1].type = TOOL_CALL]_vars


\* The URL execute_api_tool resolves for the tool of the call: the server
\* of the override, of the endpoint's own url or of the linked API, joined
\* with the path of the endpoint.
ResolvedUrl ==
    FullUrl(ServerUrlOf(ConfigOf(exec_tool), exec_tool.api_request),
            exec_tool.api_request.path)

\* The URL is a text that begins with http:// or https://.
BeginsWithHttp(url) ==
    /\ url # None
    /\ \/ Take(url, 7) = <<"h", "t", "t", "p", ":", "/", "/">>
       \/ Take(url, 8) = <<"h", "t", "t", "p", "s", ":", "/", "/">>

\* The two texts execute_api_tool returns for a URL it does not call.
UrlErrorTexts(tool, url) ==
    {<<"Error: Could not determine URL for API request ">> \o tool.api_request.id,
     <<"Error: Invalid URL ">> \o url \o <<". URL must start with http:// or https://">>}

\* C26: when the URL resolved from the override, the endpoint's own url and
\* the server of the linked API, joined with the path, is empty or does not
\* begin with http:// or https://, execute_api_tool sends no HTTP request and
\* returns a text that names the error.
C26_NoRequestForBadUrl ==
    (/\ exec_pc # "Idle"
     /\ exec_tool.api_request # NoObject
     /\ ~BeginsWithHttp(ResolvedUrl)) =>
        /\ exec_pc = "Returned"
        /\ exec_request = NoObject
        /\ exec_raised = NoObject
        /\ exec_result \in UrlErrorTexts(exec_tool, ResolvedUrl)

\* The server of the linked API is an ftp server: no request was sent and
\* the text names the URL.
C26_Witness ==
    /\ exec_pc = "Returned"
    /\ exec_tool.api_request # NoObject
    /\ Take(ResolvedUrl, 6) = <<"f", "t", "p", ":", "/", "/">>
    /\ exec_request = NoObject
    /\ exec_result = <<"Error: Invalid URL ">> \o ResolvedUrl
                         \o <<". URL must start with http:// or https://">>


PATCH == <<"P", "A", "T", "C", "H">>

\* The call gets as far as the request: the tool has an endpoint with a
\* path, the URL can be called and the arguments are a dict.
CallIsDue ==
    /\ exec_pc # "Idle"
    /\ exec_tool.api_request # NoObject
    /\ exec_tool.api_request.path # None
    /\ BeginsWithHttp(ResolvedUrl)
    /\ exec_arguments.kind = "dict"

\* A request with a body was sent.
BodySent == exec_request # NoObject /\ exec_request.json # NoObject

\* C27: a request body is sent exactly for the methods POST, PUT and PATCH,
\* and it holds a property exactly when the property is declared in the
\* request-body schema of the endpoint and is present in the arguments; for
\* every other method no body is sent.
C27_BodyForPostPutPatch ==
    CallIsDue =>
        /\ BodySent <=> MethodOf(exec_tool.api_request) \in {POST, PUT, PATCH}
        /\ BodySent =>
               exec_request.json.properties
                   = exec_tool.api_request.request_body_schema \cap exec_arguments.keys

\* What the code keeps of C27: a body is sent exactly for POST and PUT, and
\* it holds the properties present in the arguments that the schema of the
\* endpoint or the body_schema of the tool's configuration declares.
C27_BodyForPostPut ==
    CallIsDue =>
        /\ BodySent <=> MethodOf(exec_tool.api_request) \in {POST, PUT}
        /\ BodySent =>
               exec_request.json.properties
                   = (exec_tool.api_request.request_body_schema
                          \cup ConfigOf(exec_tool).body_schema) \cap exec_arguments.keys

\* A PATCH endpoint was called with arguments its schema declares and no
\* request was sent.
C27_PatchSendsNothing ==
    /\ CallIsDue
    /\ exec_pc = "Returned"
    /\ MethodOf(exec_tool.api_request) = PATCH
    /\ "q" \in exec_tool.api_request.request_body_schema \cap exec_arguments.keys
    /\ exec_request = NoObject


\* C28: the query parameters of the request hold a declared query-parameter
\* name exactly when the parameter is marked required or is present in the
\* arguments, and no name that is not a declared query parameter.
C28_RequiredOrPresentParams ==
    exec_request # NoObject =>
        exec_request.params
            = {name \in ConfigOf(exec_tool).params :
                   name \in ConfigOf(exec_tool).required \/ name \in exec_arguments.keys}

\* What the code keeps of C28: the query parameters are the declared names
\* that are present in the arguments.
C28_PresentParams ==
    exec_request # NoObject =>
        exec_request.params = ConfigOf(exec_tool).params \cap exec_arguments.keys

\* A request left without the required parameter the arguments lack, with
\* the declared one they have and without the undeclared ones.
C28_RequiredParamMissing ==
    /\ exec_request # NoObject
    /\ "page" \in ConfigOf(exec_tool).required
    /\ exec_request.params = {"limit"}
    /\ "extra" \in exec_arguments.keys


\* A step registers the name with an id other than the one it had.
Reregistered(name) ==
    /\ last_registered[name] # None
    /\ last_registered'[name] # last_registered[name]

\* C29: after _register_tool_name_mapping(n, a) and then
\* _register_tool_name_mapping(n, b) with another id b,
\* _get_tool_id_by_name(n) returns b, every other registered name is mapped
\* as before, and no registration removes a name from the mapping.
C29_LastWriterWins ==
    [][/\ MapKeys(tool_name_to_id_map) \subseteq MapKeys(tool_name_to_id_map')
       /\ \A n \in MapNames :
              Reregistered(n) =>
                  /\ _get_tool_id_by_name(tool_name_to_id_map', n) = last_registered'[n]
                  /\ \A m \in MapKeys(tool_name_to_id_map) \ {n} :
                         _get_tool_id_by_name(tool_name_to_id_map', m)
                             = _get_tool_id_by_name(tool_name_to_id_map, m)]_vars

\* "t_a" was registered with a1 and then with b1 while "x" and "t_b" were
\* registered too, and the lookup of "t_a" returned b1.
C29_Witness ==
    /\ replaced = <<<<"t", "_", "a">>, <<"a", "1">>>>
    /\ last_registered[<<"t", "_", "a">>] = <<"b", "1">>
    /\ {<<"x">>, <<"t", "_", "b">>} \subseteq MapKeys(tool_name_to_id_map)
    /\ lookup_name = <<"t", "_", "a">>
    /\ lookup_result = <<"b", "1">>


\* The ids of the mapping, and the text after the last "_" of a name.
RegisteredIds == {tool_name_to_id_map[k][2] : k \in 1..Len(tool_name_to_id_map)}
LastToken(name) == Split(name, "_")[Len(Split(name, "_"))]
HasUnderscore(name) == \E i \in 1..Len(name) : name[i] = "_"

\* The latest call of _get_tool_id_by_name was for a name that is not a key.
LookedUpUnregistered ==
    /\ lookup_name # None
    /\ lookup_name \notin MapKeys(tool_name_to_id_map)

\* C30: for a name that is not a key of the mapping, _get_tool_id_by_name
\* returns an id only if the id is registered and the text after the last
\* "_" of the name is a prefix of it that is not empty; for a name that ends
\* in "_", a name without "_" and an empty mapping it returns None.
C30_NonEmptyPrefixOnly ==
    LookedUpUnregistered =>
        /\ lookup_result # None =>
               /\ lookup_result \in RegisteredIds
               /\ HasUnderscore(lookup_name)
               /\ LastToken(lookup_name) # <<>>
               /\ StartsWith(lookup_result, LastToken(lookup_name))
        /\ (\/ ~HasUnderscore(lookup_name)
            \/ LastToken(lookup_name) = <<>>
            \/ tool_name_to_id_map = <<>>) => lookup_result = None

\* What the code keeps of C30: the id returned for a name that is not a key
\* is registered and starts with the text after the last "_", which may be
\* empty; a name without "_" and an empty mapping give None.
C30_PrefixOnly ==
    LookedUpUnregistered =>
        /\ lookup_result # None =>
               /\ lookup_result \in RegisteredIds
               /\ HasUnderscore(lookup_name)
               /\ StartsWith(lookup_result, LastToken(lookup_name))
        /\ (~HasUnderscore(lookup_name) \/ tool_name_to_id_map = <<>>) =>
               lookup_result = None

\* The name "t_" is not a key and its lookup returned the id registered
\* first.
C30_EmptyTokenMatches ==
    /\ LookedUpUnregistered
    /\ lookup_name = <<"t", "_">>
    /\ Len(tool_name_to_id_map) >= 2
    /\ lookup_result = tool_name_to_id_map[1][2]

====
